---- MODULE Spec2Model ----
(***************************************************************************)
(* Wall-IT: backend detection, the per-monitor state store, the rate       *)
(* limiter and the wallpaper application pipeline, modelled from the       *)
(* Python sources.                                                         *)
(*                                                                         *)
(* Four specifications share the variables below; each leaves the          *)
(* variables of the other parts at their initial values.                   *)
(*   SpecDetect  BackendManager.__init__ (_load_backends, _detect_backend) *)
(*   SpecStore   MonitorStateManager (_load_state, _save_state, set)       *)
(*   SpecRate    the rate limiter at the head of WallpaperSetter.set_wallpaper *)
(*   Spec        the apply pipeline (GUI and wall-it-common)               *)
(***************************************************************************)
EXTENDS Integers, Sequences, FiniteSets, TLC

VARIABLES
    \* ---- backend detection (BackendManager)
    variant,        \* which copy of wall-it-backend-manager.py: "root" or "gui"
    xdgKde,         \* 'KDE' is in XDG_CURRENT_DESKTOP
    kdeLoadable,    \* wall-it-kde-backend.py exists beside the manager and imports
    ctorOutcome,    \* per candidate: what backend_class() does here
    probeOutcome,   \* per candidate: what is_available() does here
    mgr,            \* "unconstructed", "constructed", or "raised" when __init__ raised
    backends,       \* self.backends, in insertion order
    active,         \* self._active_backend (its registry key) or NoBackend
    probeLog,       \* one entry per candidate tried by _detect_backend, in order
    detectEnv,      \* the tool environment the last detection ran in
    prevActive,     \* the active backend the detection before the last one found
    repeated,       \* the last detection ran in the environment of the one before it
    inflight,       \* the backend a proxied operation in hand was handed, or Idle
    \* ---- per-monitor state store (MonitorStateManager)
    files,          \* monitor_state.json ("real") and monitor_state.tmp ("tmp")
    storePc,        \* per process: "idle", "writing", "down"
    memState,       \* per process: self.state["monitors"], an ordered mapping
    pending,        \* per process: what json.dump has still to write
    lastSave,       \* per process: result of the last _save_state
    lastSet,        \* per process: the (monitor, path) of the last set call
    docBefore,      \* the document at the real path when the current set began
    docTarget,      \* the document the current set is writing
    sync,           \* per process: the sync_from_global_state call in hand
    \* ---- rate limiter (head of WallpaperSetter.set_wallpaper), times in ms
    now,            \* the clock, time.time()
    lastChange,     \* self._last_change_time, or NoTime while the attribute is unset
    rpc,            \* per thread: "idle", "sleeping", "stamp", "prepare", "dispatch"
    curTime,        \* per thread: the local current_time (the call's start)
    wakeAt,         \* per thread: when its time.sleep() may return
    passedAt,       \* per thread: when this call was let through (no sleep, or the sleep returned)
    dispatchAt,     \* per thread: when this call reached the backend dispatch
    pred,           \* per thread: the times of the call before this one
    prevCall,       \* start, limiter exit and dispatch time of the call that returned last
    ncalls,         \* calls made so far
    overlap,        \* two calls have been in progress at the same time
    \* ---- apply pipeline (WallpaperSetter.set_wallpaper, common set_wallpaper)
    backend,            \* the GUI manager's active backend (registry key) or NoBackend
    swwwAvailable,      \* swww is installed and its daemon answers
    pilAvailable,       \* PIL_AVAILABLE
    wallpapers,         \* names of the image files that exist
    tempFiles,          \* the effect_* derivatives that exist in temp_dir
    currentWallpaper,   \* target of the ~/.current-wallpaper link, or NoPath
    tempLink,           \* target of the .tmp link beside it, or NoPath
    currentEffect,      \* content of the current-effect marker
    monitorWallpapers,  \* the monitor-wallpapers document, connector -> path
    connected,          \* the connectors attached right now
    availableMonitors,  \* the GUI's available_monitors, read when the window was built
    call,               \* the apply call in progress
    napplies,           \* apply calls started so far
    discovery,          \* what a monitor discovery tool printed
    parsed,             \* what a monitor parser made of it
    \* ---- backend queries (is_available, get_monitors, get_active_monitor)
    toolEnv,            \* how each external binary behaves when it is run
    desktop,            \* XDG_CURRENT_DESKTOP
    focusQuery,         \* what `niri msg focused-output` does when niri runs
    outputs,            \* the connectors a working discovery tool lists
    cached,             \* the monitors MonitorManager found when it was built
    asked,              \* the query made and what it returned
    \* ---- temp-directory cleanup at the head of WallpaperSetter.set_wallpaper
    tempDir,        \* the effect_* and preview_* files in temp_dir
    aged,           \* those whose mtime is more than 120 s back
    recorded,       \* the content of the current_effect file
    sw,             \* the set_wallpaper call in hand: position and what it did
    \* ---- auto-change timer (WallpaperTimer and the GLib main loop)
    timer,          \* the WallpaperTimer object: timer_id, running, interval
    autoInterval,   \* the stored auto-change interval setting
    source,         \* GLib's timeout source for _on_timer: "none" or "armed"
    idle,           \* set_wallpaper_with_effect callbacks queued by idle_add
    threads,        \* set_in_background threads that are running
    dispatched,     \* applies the timer has handed to idle_add so far
    completed,      \* applies whose set_in_background thread has finished
    lastAsked,      \* the last of start and stop that was called
    leaked,         \* a timeout source is armed that timer_id does not name
    \* ---- two processes saving to the one monitor-state file
    dirent,         \* the directory: which inode each of the two names has
    inode,          \* the content of each inode, linked or not
    writer,         \* per process: position in set_current_wallpaper, fd, ...
    finishOrder,    \* the processes whose set call has returned, in order
    \* ---- one MonitorStateManager: loading, lookups and navigation
    stateFile,      \* monitor_state.json as json.load would see it
    wallpaperDir,   \* the image files in config.WALLPAPER_DIR
    msm,            \* the manager: built or not, self.state, what it loaded
    reply,          \* what the last call on the manager did
    trip,           \* a next / set / prev round trip in progress
    \* ---- two apply threads of the GUI writing monitor_wallpapers.json
    trackFile,      \* the tracking file: its document, or cut to nothing
    tracker,        \* per thread: position in set_monitor_wallpaper, its copy
    \* ---- the current-effect marker file and its two readers
    marker,         \* the marker file: there or not, padded or not, its fields
    effectCall      \* the last set / get on the marker and what came of it

detectVars == <<variant, xdgKde, kdeLoadable, ctorOutcome, probeOutcome,
                mgr, backends, active, probeLog, detectEnv, prevActive,
                repeated, inflight>>

storeVars == <<files, storePc, memState, pending, lastSave, lastSet, sync,
               docBefore, docTarget>>

rateVars == <<now, lastChange, rpc, curTime, wakeAt, passedAt, dispatchAt, pred,
              prevCall, ncalls, overlap>>

applyVars == <<backend, swwwAvailable, pilAvailable, wallpapers, tempFiles,
               currentWallpaper, tempLink, currentEffect, monitorWallpapers,
               connected, availableMonitors, call, napplies>>

parseVars == <<discovery, parsed>>

toolVars == <<toolEnv, desktop, focusQuery, outputs, cached, asked>>

cleanVars == <<tempDir, aged, recorded, sw>>

timerVars == <<timer, autoInterval, source, idle, threads, dispatched, completed, lastAsked, leaked>>

shareVars == <<dirent, inode, writer, finishOrder>>

msmVars == <<stateFile, wallpaperDir, msm, reply, trip>>

raceVars == <<trackFile, tracker>>

effectVars == <<marker, effectCall>>

vars == <<detectVars, storeVars, rateVars, applyVars, parseVars, toolVars, cleanVars, timerVars, shareVars, msmVars, raceVars, effectVars>>

----------------------------------------------------------------------------
(* Backend detection                                                       *)

NoBackend == "None"

CandidateNames == {"niri", "kde"}

CtorOutcomes == {"ok", "raise"}

ProbeOutcomes == {"true", "false", "raise"}

\* _load_backends. The root copy registers niri first and kde only inside a
\* KDE session; the copy beside the GUI registers kde first (when its file
\* loads) and niri after it. Python dicts keep insertion order.
LoadBackends(v, kdeSession, loadable) ==
    IF v = "root"
    THEN <<"niri">> \o (IF kdeSession /\ loadable THEN <<"kde">> ELSE <<>>)
    ELSE (IF loadable THEN <<"kde">> ELSE <<>>) \o <<"niri">>

\* What one pass of the loop learns about candidate n.
TryCandidate(n, ctor, probe) ==
    [name  |-> n,
     ctor  |-> ctor[n],
     probe |-> IF ctor[n] = "ok" THEN probe[n] ELSE "skipped"]

Accepted(entry) == entry.ctor = "ok" /\ entry.probe = "true"

\* the constructor or the probe of this candidate raised
Raised(entry) == entry.ctor = "raise" \/ entry.probe = "raise"

\* A detection loop that forgets the `return` after accepting a candidate.
RECURSIVE DetectFromNoReturn(_, _, _, _)
DetectFromNoReturn(bs, i, ctor, probe) ==
    IF i > Len(bs)
    THEN [active |-> NoBackend, log |-> <<>>, raised |-> FALSE]
    ELSE LET entry == TryCandidate(bs[i], ctor, probe)
             rest  == DetectFromNoReturn(bs, i + 1, ctor, probe)
         IN  [active |-> IF rest.active # NoBackend THEN rest.active
                         ELSE IF Accepted(entry) THEN entry.name ELSE NoBackend,
              log    |-> <<entry>> \o rest.log,
              raised |-> FALSE]

\* A detection loop without the try/except around the candidate: the first
\* exception ends the loop and leaves __init__.
RECURSIVE DetectFromUncaught(_, _, _, _)
DetectFromUncaught(bs, i, ctor, probe) ==
    IF i > Len(bs)
    THEN [active |-> NoBackend, log |-> <<>>, raised |-> FALSE]
    ELSE LET entry == TryCandidate(bs[i], ctor, probe)
         IN  IF Accepted(entry)
             THEN [active |-> entry.name, log |-> <<entry>>, raised |-> FALSE]
             ELSE IF Raised(entry)
             THEN [active |-> NoBackend, log |-> <<entry>>, raised |-> TRUE]
             ELSE LET rest == DetectFromUncaught(bs, i + 1, ctor, probe)
                  IN  [active |-> rest.active, log |-> <<entry>> \o rest.log,
                       raised |-> rest.raised]

\* A detection whose probe of the backend the previous manager still holds
\* comes back false.
RECURSIVE DetectFromSkipActive(_, _, _, _)
DetectFromSkipActive(bs, i, ctor, probe) ==
    IF i > Len(bs)
    THEN [active |-> NoBackend, log |-> <<>>, raised |-> FALSE]
    ELSE LET entry == TryCandidate(bs[i], ctor, probe)
         IN  IF Accepted(entry) /\ entry.name # active
             THEN [active |-> entry.name, log |-> <<entry>>, raised |-> FALSE]
             ELSE LET rest == DetectFromSkipActive(bs, i + 1, ctor, probe)
                  IN  [active |-> rest.active, log |-> <<entry>> \o rest.log,
                       raised |-> rest.raised]

\* A detection that leaves the active backend as it was when no candidate
\* is accepted.
RECURSIVE DetectFromKeepOld(_, _, _, _)
DetectFromKeepOld(bs, i, ctor, probe) ==
    IF i > Len(bs)
    THEN [active |-> active, log |-> <<>>, raised |-> FALSE]
    ELSE LET entry == TryCandidate(bs[i], ctor, probe)
         IN  IF Accepted(entry)
             THEN [active |-> entry.name, log |-> <<entry>>, raised |-> FALSE]
             ELSE LET rest == DetectFromKeepOld(bs, i + 1, ctor, probe)
                  IN  [active |-> rest.active, log |-> <<entry>> \o rest.log,
                       raised |-> rest.raised]

\* _detect_backend from candidate i on: instantiate, probe, accept the first
\* that answers true and return; an exception from either step is caught and
\* the loop goes on.
RECURSIVE DetectFrom(_, _, _, _)
DetectFrom(bs, i, ctor, probe) ==
    IF i > Len(bs)
    THEN [active |-> NoBackend, log |-> <<>>, raised |-> FALSE]
    ELSE LET entry == TryCandidate(bs[i], ctor, probe)
         IN  IF Accepted(entry)
             THEN [active |-> entry.name, log |-> <<entry>>, raised |-> FALSE]
             ELSE LET rest == DetectFrom(bs, i + 1, ctor, probe)
                  IN  [active |-> rest.active, log |-> <<entry>> \o rest.log,
                       raised |-> rest.raised]

\* no proxied operation is running
Idle == "idle"

DetectInit ==
    /\ variant \in {"root", "gui"}
    /\ xdgKde \in BOOLEAN
    /\ kdeLoadable \in BOOLEAN
    /\ ctorOutcome \in [CandidateNames -> CtorOutcomes]
    /\ probeOutcome \in [CandidateNames -> ProbeOutcomes]
    /\ mgr = "unconstructed"
    /\ backends = <<>>
    /\ active = NoBackend
    /\ probeLog = <<>>
    /\ detectEnv = [ctor |-> ctorOutcome, probe |-> probeOutcome]
    /\ prevActive = NoBackend
    /\ repeated = FALSE
    /\ inflight = Idle

\* BackendManager.__init__. wall-it-common's get_backend_manager() builds a
\* fresh manager on every call, so detection can run again at any time; the
\* new instance replaces the old one.
ConstructManager ==
    /\ LET bs == LoadBackends(variant, xdgKde, kdeLoadable)
           d  == DetectFrom(bs, 1, ctorOutcome, probeOutcome)
       IN  /\ backends' = bs
           /\ active' = d.active
           /\ probeLog' = d.log
           /\ mgr' = (IF d.raised THEN "raised" ELSE "constructed")
    /\ detectEnv' = [ctor |-> ctorOutcome, probe |-> probeOutcome]
    /\ prevActive' = active
    /\ repeated' = (/\ mgr = "constructed"
                    /\ detectEnv = [ctor |-> ctorOutcome, probe |-> probeOutcome])
    /\ UNCHANGED <<variant, xdgKde, kdeLoadable, ctorOutcome, probeOutcome, inflight>>
    /\ UNCHANGED <<storeVars, rateVars, applyVars, parseVars, toolVars, cleanVars, timerVars, shareVars, msmVars, raceVars, effectVars>>

\* The tools of one candidate start or stop working (a daemon starts, a
\* binary is installed or removed) between two detections.
ToolsChange ==
    /\ \E n \in CandidateNames, c \in CtorOutcomes, p \in ProbeOutcomes :
           /\ <<c, p>> # <<ctorOutcome[n], probeOutcome[n]>>
           /\ ctorOutcome' = [ctorOutcome EXCEPT ![n] = c]
           /\ probeOutcome' = [probeOutcome EXCEPT ![n] = p]
    /\ UNCHANGED <<variant, xdgKde, kdeLoadable, mgr, backends, active,
                   probeLog, detectEnv, prevActive, repeated, inflight>>
    /\ UNCHANGED <<storeVars, rateVars, applyVars, parseVars, toolVars, cleanVars, timerVars, shareVars, msmVars, raceVars, effectVars>>

\* A proxy method of the manager (get_monitors, set_wallpaper, ...) is
\* called: it reads self._active_backend and calls into that object.
ProxyCall ==
    /\ mgr = "constructed"
    /\ inflight = Idle
    /\ inflight' = active
    /\ UNCHANGED <<variant, xdgKde, kdeLoadable, ctorOutcome, probeOutcome,
                   mgr, backends, active, probeLog, detectEnv, prevActive,
                   repeated>>
    /\ UNCHANGED <<storeVars, rateVars, applyVars, parseVars, toolVars, cleanVars, timerVars, shareVars, msmVars, raceVars, effectVars>>

\* The backend's method returns.
ProxyReturn ==
    /\ inflight # Idle
    /\ inflight' = Idle
    /\ UNCHANGED <<variant, xdgKde, kdeLoadable, ctorOutcome, probeOutcome,
                   mgr, backends, active, probeLog, detectEnv, prevActive,
                   repeated>>
    /\ UNCHANGED <<storeVars, rateVars, applyVars, parseVars, toolVars, cleanVars, timerVars, shareVars, msmVars, raceVars, effectVars>>

DetectNext == ConstructManager \/ ToolsChange \/ ProxyCall \/ ProxyReturn

\* The detection part at rest, for the specifications of the other parts.
DetectQuiet ==
    /\ variant = "root"
    /\ xdgKde = FALSE
    /\ kdeLoadable = FALSE
    /\ ctorOutcome = [n \in CandidateNames |-> "ok"]
    /\ probeOutcome = [n \in CandidateNames |-> "true"]
    /\ mgr = "unconstructed"
    /\ backends = <<>>
    /\ active = NoBackend
    /\ probeLog = <<>>
    /\ detectEnv = [ctor |-> ctorOutcome, probe |-> probeOutcome]
    /\ prevActive = NoBackend
    /\ repeated = FALSE
    /\ inflight = Idle

----------------------------------------------------------------------------
(* Per-monitor state store: wall-it-monitor-state.py                       *)

Connectors == {"DP-1", "HDMI-A-1"}

StorePaths == {"a.png", "b.png"}

Procs == {1, 2}

\* The serialized document is a sequence of tokens: an opening brace, one
\* token per (connector, path) entry, a closing brace. A file cut short by a
\* crash or an I/O error holds a proper prefix.
OpenTok == <<"{", "">>

CloseTok == <<"}", "">>

AbsentFile == [exists |-> FALSE, data |-> <<>>]

EmptyDoc == <<>>

\* json.dump(self.state, f)
Serialize(doc) == <<OpenTok>> \o doc \o <<CloseTok>>

\* json.load succeeds only on a whole document.
IsCompleteDoc(data) ==
    /\ Len(data) >= 2
    /\ data[1] = OpenTok
    /\ data[Len(data)] = CloseTok
    /\ \A i \in 2..(Len(data) - 1) : data[i] \notin {OpenTok, CloseTok}

\* _load_state: an absent file and a file json.load rejects both give the
\* empty store.
LoadState(f) ==
    IF f.exists /\ IsCompleteDoc(f.data)
    THEN SubSeq(f.data, 2, Len(f.data) - 1)
    ELSE EmptyDoc

HasEntry(doc, m) == \E i \in DOMAIN doc : doc[i][1] = m

\* self.state["monitors"].get(m, {}).get("current_wallpaper")
Lookup(doc, m) ==
    IF HasEntry(doc, m)
    THEN doc[CHOOSE i \in DOMAIN doc : doc[i][1] = m][2]
    ELSE ""

\* self.state["monitors"][m]["current_wallpaper"] = str(path): an existing
\* key keeps its place, a new key goes last.
SetEntry(doc, m, path) ==
    IF HasEntry(doc, m)
    THEN [i \in DOMAIN doc |-> IF doc[i][1] = m THEN <<m, path>> ELSE doc[i]]
    ELSE Append(doc, <<m, path>>)

\* A save that writes the document straight into the real file.
SaveTargetInPlace == "real"

\* _save_state writes to state_file.with_suffix('.tmp').
SaveTarget == "tmp"

\* Documents a store can hold: no connector twice.
StoreDocs ==
    {<<>>}
    \cup {<<e>> : e \in Connectors \X StorePaths}
    \cup {<<e1, e2>> : e1 \in Connectors \X StorePaths, e2 \in Connectors \X StorePaths}

ValidDocs == {d \in StoreDocs : \A i, j \in DOMAIN d : i # j => d[i][1] # d[j][1]}

\* config.CURRENT_WALLPAPER_LINK as sync_from_global_state finds it: no link,
\* a link to an existing image, or a link whose image has been deleted.
PointerStates ==
    {<<"absent", "">>}
    \cup {<<kind, t>> : kind \in {"valid", "dangling"}, t \in StorePaths}

\* CURRENT_WALLPAPER_LINK.exists() follows the link.
PointerExists(pointer) == pointer[1] = "valid"

\* What backend_manager.get_monitors() gives the sync: it raises, or a list
\* of monitors named by connector ("" is a monitor with no name).
SyncDiscoveries ==
    {[raised |-> TRUE, listed |-> <<>>]}
    \cup {[raised |-> FALSE, listed |-> ms] :
              ms \in {<<>>, <<"DP-1">>, <<"DP-1", "HDMI-A-1">>, <<"", "HDMI-A-1">>}}

NoSync ==
    [pc |-> "idle", before |-> EmptyDoc, pointer |-> <<"absent", "">>,
     found |-> <<>>, todo |-> <<>>, result |-> "none"]

\* A sync that initialises the entries whatever the store holds.
SyncBootstrapsAlways(doc, pointer, manager) ==
    PointerExists(pointer) /\ manager

\* if LINK.exists(): ... if not self.state["monitors"] and self.backend_manager:
SyncBootstraps(doc, pointer, manager) ==
    PointerExists(pointer) /\ doc = EmptyDoc /\ manager

\* Process 1 has just built its MonitorStateManager (state read from the
\* file); process 2 is not running. The temp file may be a leftover of an
\* earlier crash.
StoreInit ==
    /\ \E real \in {AbsentFile} \cup {[exists |-> TRUE, data |-> Serialize(d)] : d \in ValidDocs},
          tmp \in {AbsentFile, [exists |-> TRUE, data |-> <<OpenTok>>]} :
           /\ files = [real |-> real, tmp |-> tmp]
           /\ memState = [p \in Procs |-> IF p = 1 THEN LoadState(real) ELSE EmptyDoc]
           /\ docBefore = LoadState(real)
           /\ docTarget = LoadState(real)
    /\ storePc = [p \in Procs |-> IF p = 1 THEN "idle" ELSE "down"]
    /\ pending = [p \in Procs |-> <<>>]
    /\ lastSave = [p \in Procs |-> "none"]
    /\ lastSet = [p \in Procs |-> <<"", "">>]
    /\ sync = [p \in Procs |-> NoSync]

\* set_current_wallpaper up to the open() of _save_state: the entry is set in
\* memory, then the target file is opened for writing (created or truncated);
\* an OSError from open() is caught and the call returns False.
SetCurrentWallpaper(p, m, path) ==
    /\ storePc[p] = "idle"
    /\ LET doc == SetEntry(memState[p], m, path)
       IN  /\ memState' = [memState EXCEPT ![p] = doc]
           /\ lastSet' = [lastSet EXCEPT ![p] = <<m, path>>]
           /\ docBefore' = LoadState(files.real)
           /\ docTarget' = doc
           /\ \/ /\ files' = [files EXCEPT ![SaveTarget] = [exists |-> TRUE, data |-> <<>>]]
                 /\ pending' = [pending EXCEPT ![p] = Serialize(doc)]
                 /\ storePc' = [storePc EXCEPT ![p] = "writing"]
                 /\ lastSave' = [lastSave EXCEPT ![p] = "none"]
              \/ /\ lastSave' = [lastSave EXCEPT ![p] = "failed"]
                 /\ UNCHANGED <<files, pending, storePc>>
    /\ UNCHANGED <<detectVars, rateVars, applyVars, parseVars, toolVars, cleanVars, timerVars, shareVars, msmVars, raceVars, effectVars>>

\* json.dump writes the next piece of the document, or the write raises and
\* _save_state returns False leaving the target as it is.
SaveWrite(p) ==
    /\ storePc[p] = "writing"
    /\ pending[p] # <<>>
    /\ \/ /\ files' = [files EXCEPT ![SaveTarget].data = Append(@, Head(pending[p]))]
          /\ pending' = [pending EXCEPT ![p] = Tail(@)]
          /\ UNCHANGED <<storePc, lastSave>>
       \/ /\ storePc' = [storePc EXCEPT ![p] = "idle"]
          /\ lastSave' = [lastSave EXCEPT ![p] = "failed"]
          /\ pending' = [pending EXCEPT ![p] = <<>>]
          /\ UNCHANGED files
    /\ UNCHANGED <<memState, lastSet, docBefore, docTarget, sync>>
    /\ UNCHANGED <<detectVars, rateVars, applyVars, parseVars, toolVars, cleanVars, timerVars, shareVars, msmVars, raceVars, effectVars>>

\* temp_file.replace(self.state_file): one rename; or it raises and
\* _save_state returns False.
SaveReplace(p) ==
    /\ storePc[p] = "writing"
    /\ pending[p] = <<>>
    /\ \/ /\ files' = IF SaveTarget = "tmp"
                       THEN [real |-> files.tmp, tmp |-> AbsentFile]
                       ELSE files
          /\ lastSave' = [lastSave EXCEPT ![p] = "ok"]
       \/ /\ lastSave' = [lastSave EXCEPT ![p] = "failed"]
          /\ UNCHANGED files
    /\ storePc' = [storePc EXCEPT ![p] = "idle"]
    /\ UNCHANGED <<memState, pending, lastSet, docBefore, docTarget, sync>>
    /\ UNCHANGED <<detectVars, rateVars, applyVars, parseVars, toolVars, cleanVars, timerVars, shareVars, msmVars, raceVars, effectVars>>

\* The process dies (kill, power loss) wherever it is; its memory is gone,
\* the files stay as they are.
Crash(p) ==
    /\ storePc[p] \in {"idle", "writing"}
    /\ storePc' = [storePc EXCEPT ![p] = "down"]
    /\ memState' = [memState EXCEPT ![p] = EmptyDoc]
    /\ pending' = [pending EXCEPT ![p] = <<>>]
    /\ sync' = [sync EXCEPT ![p] = NoSync]
    /\ UNCHANGED <<files, lastSave, lastSet, docBefore, docTarget>>
    /\ UNCHANGED <<detectVars, rateVars, applyVars, parseVars, toolVars, cleanVars, timerVars, shareVars, msmVars, raceVars, effectVars>>

\* MonitorStateManager.__init__ in a new process: self.state = _load_state()
Restart(p) ==
    /\ storePc[p] = "down"
    /\ storePc' = [storePc EXCEPT ![p] = "idle"]
    /\ memState' = [memState EXCEPT ![p] = LoadState(files.real)]
    /\ UNCHANGED <<files, pending, lastSave, lastSet, docBefore, docTarget, sync>>
    /\ UNCHANGED <<detectVars, rateVars, applyVars, parseVars, toolVars, cleanVars, timerVars, shareVars, msmVars, raceVars, effectVars>>

\* A caller's set_current_wallpaper(m, path).
Set(p, m, path) ==
    /\ sync[p].pc # "running"
    /\ SetCurrentWallpaper(p, m, path)
    /\ sync' = [sync EXCEPT ![p] = NoSync]

\* sync_from_global_state up to its loop: the pointer test, the emptiness
\* test and the discovery call. Outside the bootstrap case it returns True
\* at once; a discovery that raises makes it return False.
SyncFromGlobalState(p, pointer, manager, monitors) ==
    /\ storePc[p] = "idle"
    /\ sync[p].pc # "running"
    /\ LET start == [pc |-> "done", before |-> memState[p], pointer |-> pointer,
                     found |-> <<>>, todo |-> <<>>, result |-> "True"]
       IN  sync' = [sync EXCEPT ![p] =
               IF ~SyncBootstraps(memState[p], pointer, manager) THEN start
               ELSE IF monitors.raised
                    THEN [start EXCEPT !.result = "False"]
                    ELSE [start EXCEPT !.found = monitors.listed,
                                       !.todo = monitors.listed,
                                       !.pc = "running"]]
    /\ UNCHANGED <<files, storePc, memState, pending, lastSave, lastSet,
                   docBefore, docTarget>>
    /\ UNCHANGED <<detectVars, rateVars, applyVars, parseVars, toolVars, cleanVars, timerVars, shareVars, msmVars, raceVars, effectVars>>

\* One turn of the sync's loop: a monitor with a name is set (and saved by
\* the steps of _save_state), one without is skipped; after the last
\* monitor the sync returns True.
SyncSet(p) ==
    /\ storePc[p] = "idle"
    /\ sync[p].pc = "running"
    /\ sync[p].todo # <<>>
    /\ LET monitor_name == Head(sync[p].todo)
           rest == Tail(sync[p].todo)
       IN  /\ sync' = [sync EXCEPT ![p].todo = rest]
           /\ IF monitor_name # ""
              THEN SetCurrentWallpaper(p, monitor_name, sync[p].pointer[2])
              ELSE /\ UNCHANGED <<files, storePc, memState, pending, lastSave,
                                  lastSet, docBefore, docTarget>>
                   /\ UNCHANGED <<detectVars, rateVars, applyVars, parseVars, toolVars, cleanVars, timerVars, shareVars, msmVars, raceVars, effectVars>>

\* return True after the loop.
SyncReturn(p) ==
    /\ storePc[p] = "idle"
    /\ sync[p].pc = "running"
    /\ sync[p].todo = <<>>
    /\ sync' = [sync EXCEPT ![p].pc = "done"]
    /\ UNCHANGED <<files, storePc, memState, pending, lastSave, lastSet,
                   docBefore, docTarget>>
    /\ UNCHANGED <<detectVars, rateVars, applyVars, parseVars, toolVars, cleanVars, timerVars, shareVars, msmVars, raceVars, effectVars>>

StoreNext ==
    \/ \E m \in Connectors, path \in StorePaths : Set(1, m, path)
    \/ \E pointer \in PointerStates, manager \in BOOLEAN, monitors \in SyncDiscoveries :
           SyncFromGlobalState(1, pointer, manager, monitors)
    \/ SyncSet(1)
    \/ SyncReturn(1)
    \/ SaveWrite(1)
    \/ SaveReplace(1)
    \/ Crash(1)
    \/ Restart(1)

\* The store part at rest, for the specifications of the other parts.
StoreQuiet ==
    /\ files = [real |-> AbsentFile, tmp |-> AbsentFile]
    /\ storePc = [p \in Procs |-> "down"]
    /\ memState = [p \in Procs |-> EmptyDoc]
    /\ pending = [p \in Procs |-> <<>>]
    /\ lastSave = [p \in Procs |-> "none"]
    /\ lastSet = [p \in Procs |-> <<"", "">>]
    /\ sync = [p \in Procs |-> NoSync]
    /\ docBefore = EmptyDoc
    /\ docTarget = EmptyDoc

----------------------------------------------------------------------------
(* Rate limiter: src/src/wallpaper-gui.py, set_wallpaper lines 2147-2153.  *)
(* Each apply started by set_wallpaper_with_effect runs on a thread of its *)
(* own; all of them share one WallpaperSetter.                             *)

Threads == {1, 2}

NoTime == -1

\* if time_since_last < 1.0
RateWindow == 1000

TickMs == 250

MaxTime == 1500

MaxCalls == 3

NoCall == [start |-> NoTime, passed |-> NoTime, dispatch |-> NoTime]

\* A limiter that sleeps for the time already elapsed instead of the rest.
SleepForElapsed(since) == since

\* time.sleep(1.0 - time_since_last)
SleepFor(since) == RateWindow - since

RateInit ==
    /\ now = 0
    /\ lastChange = NoTime
    /\ rpc = [t \in Threads |-> "idle"]
    /\ curTime = [t \in Threads |-> NoTime]
    /\ wakeAt = [t \in Threads |-> NoTime]
    /\ passedAt = [t \in Threads |-> NoTime]
    /\ dispatchAt = [t \in Threads |-> NoTime]
    /\ pred = [t \in Threads |-> NoCall]
    /\ prevCall = NoCall
    /\ ncalls = 0
    /\ overlap = FALSE

\* Lines 2148-2152: read the clock, compare with _last_change_time if the
\* attribute exists, and go to sleep for the rest of the window if the last
\* change is less than a second old.
RateEnter(t) ==
    /\ rpc[t] = "idle"
    /\ ncalls < MaxCalls
    /\ ncalls' = ncalls + 1
    /\ curTime' = [curTime EXCEPT ![t] = now]
    /\ dispatchAt' = [dispatchAt EXCEPT ![t] = NoTime]
    /\ pred' = [pred EXCEPT ![t] = prevCall]
    /\ overlap' = (overlap \/ \E u \in Threads \ {t} : rpc[u] # "idle")
    /\ IF lastChange # NoTime /\ now - lastChange < RateWindow
       THEN /\ rpc' = [rpc EXCEPT ![t] = "sleeping"]
            /\ wakeAt' = [wakeAt EXCEPT ![t] = now + SleepFor(now - lastChange)]
            /\ passedAt' = [passedAt EXCEPT ![t] = NoTime]
       ELSE /\ rpc' = [rpc EXCEPT ![t] = "stamp"]
            /\ wakeAt' = [wakeAt EXCEPT ![t] = NoTime]
            /\ passedAt' = [passedAt EXCEPT ![t] = now]
    /\ UNCHANGED <<now, lastChange, prevCall>>
    /\ UNCHANGED <<detectVars, storeVars, applyVars, parseVars, toolVars, cleanVars, timerVars, shareVars, msmVars, raceVars, effectVars>>

\* time.sleep returns, no earlier than asked.
RateWake(t) ==
    /\ rpc[t] = "sleeping"
    /\ now >= wakeAt[t]
    /\ rpc' = [rpc EXCEPT ![t] = "stamp"]
    /\ passedAt' = [passedAt EXCEPT ![t] = now]
    /\ UNCHANGED <<now, lastChange, curTime, wakeAt, dispatchAt, pred,
                   prevCall, ncalls, overlap>>
    /\ UNCHANGED <<detectVars, storeVars, applyVars, parseVars, toolVars, cleanVars, timerVars, shareVars, msmVars, raceVars, effectVars>>

\* Line 2153: self._last_change_time = current_time, the time read before
\* the sleep.
RateStamp(t) ==
    /\ rpc[t] = "stamp"
    /\ lastChange' = curTime[t]
    /\ rpc' = [rpc EXCEPT ![t] = "prepare"]
    /\ UNCHANGED <<now, curTime, wakeAt, passedAt, dispatchAt, pred, prevCall,
                   ncalls, overlap>>
    /\ UNCHANGED <<detectVars, storeVars, applyVars, parseVars, toolVars, cleanVars, timerVars, shareVars, msmVars, raceVars, effectVars>>

\* Lines 2154-2198 / 2295: effect decision, cleanup and effect processing
\* are over and the wallpaper-setting tool is invoked.
RateDispatch(t) ==
    /\ rpc[t] = "prepare"
    /\ rpc' = [rpc EXCEPT ![t] = "dispatch"]
    /\ dispatchAt' = [dispatchAt EXCEPT ![t] = now]
    /\ UNCHANGED <<now, lastChange, curTime, wakeAt, passedAt, pred, prevCall,
                   ncalls, overlap>>
    /\ UNCHANGED <<detectVars, storeVars, applyVars, parseVars, toolVars, cleanVars, timerVars, shareVars, msmVars, raceVars, effectVars>>

\* The tool has exited, the bookkeeping is done and set_wallpaper returns.
RateReturn(t) ==
    /\ rpc[t] = "dispatch"
    /\ rpc' = [rpc EXCEPT ![t] = "idle"]
    /\ prevCall' = [start |-> curTime[t], passed |-> passedAt[t],
                     dispatch |-> dispatchAt[t]]
    /\ curTime' = [curTime EXCEPT ![t] = NoTime]
    /\ wakeAt' = [wakeAt EXCEPT ![t] = NoTime]
    /\ passedAt' = [passedAt EXCEPT ![t] = NoTime]
    /\ dispatchAt' = [dispatchAt EXCEPT ![t] = NoTime]
    /\ pred' = [pred EXCEPT ![t] = NoCall]
    /\ UNCHANGED <<now, lastChange, ncalls, overlap>>
    /\ UNCHANGED <<detectVars, storeVars, applyVars, parseVars, toolVars, cleanVars, timerVars, shareVars, msmVars, raceVars, effectVars>>

\* Time passes.
Tick ==
    /\ now + TickMs <= MaxTime
    /\ now' = now + TickMs
    /\ UNCHANGED <<lastChange, rpc, curTime, wakeAt, passedAt, dispatchAt,
                   pred, prevCall, ncalls, overlap>>
    /\ UNCHANGED <<detectVars, storeVars, applyVars, parseVars, toolVars, cleanVars, timerVars, shareVars, msmVars, raceVars, effectVars>>

RateNext ==
    \/ \E t \in Threads : RateEnter(t)
    \/ \E t \in Threads : RateWake(t)
    \/ \E t \in Threads : RateStamp(t)
    \/ \E t \in Threads : RateDispatch(t)
    \/ \E t \in Threads : RateReturn(t)
    \/ Tick

----------------------------------------------------------------------------
(* The apply pipeline: WallpaperSetter.set_wallpaper (wallpaper-gui.py) and *)
(* set_wallpaper (wall-it-common.py).  One call at a time; every step that  *)
(* touches the file system is its own action, so the states a concurrent    *)
(* reader can see are states of the model.                                  *)

Images == {"a.png", "b.png"}

\* a file name that is asked for but is not in the wallpaper directory
MissingImage == "gone.png"

Effects == {"none", "blur"}

Transitions == {"none", "random", "wipe"}

Entries == {"gui", "common"}

NoMonitor == ""

ConnectorOrder == <<"DP-1", "HDMI-A-1">>

\* the connector that is plugged in and out; the other one stays attached
Hotpluggable == {"HDMI-A-1"}

MaxApplies == 1

\* A path is <<effect, file name>>: an original image has effect "none", the
\* derivative of image p under effect e is temp_dir/effect_<e>_<p.name>.
NoPath == <<"missing", "">>

Original(name) == <<"none", name>>

Derivative(image_path, effect) == <<effect, image_path[2]>>

IsDerivative(p) == p[1] \notin {"none", "missing"}

ExistsFile(p, originals, temps) ==
    IF IsDerivative(p) THEN p \in temps ELSE p # NoPath /\ p[2] \in originals

\* supports_transitions(): Niri always, KDE when swww is there, no backend never
SupportsTransitions(b, swww) == b = "niri" \/ (b = "kde" /\ swww)

validate_transition_none_only(transition, backend_supports_transitions) ==
    IF ~backend_supports_transitions THEN "none"
    ELSE IF transition = "none" THEN "fade"
    ELSE transition

validate_transition(transition, backend_supports_transitions) ==
    IF ~backend_supports_transitions THEN "none"
    ELSE IF transition \in {"none", "random"} THEN "fade"
    ELSE transition

\* A check that turns every request into 'fade' when the backend takes
\* transitions.
GuiTransitionAlwaysFade(transition, backend_supports_transitions) ==
    IF ~backend_supports_transitions THEN "none" ELSE "fade"

\* the GUI's own copy of the check, on its backend-manager path
GuiTransition(transition, backend_supports_transitions) ==
    IF ~backend_supports_transitions THEN "none"
    ELSE IF transition = "none" THEN "fade"
    ELSE IF transition = "random" THEN "fade"
    ELSE transition

\* the GUI's direct swww path: the same check, then fade is forced when the
\* effect changes
DirectTransition(transition, effect_changing) ==
    LET checked == IF transition = "none" THEN "fade"
                   ELSE IF transition = "random" THEN "fade"
                   ELSE transition
    IN IF effect_changing THEN "fade" ELSE checked

\* PhotoEffects.apply_effect: the derivative when the effect was applied, the
\* image itself when there is nothing to do or when applying it failed
PhotoEffectsApply(image_path, effect, pil, ok) ==
    IF ~pil \/ effect = "none" THEN image_path
    ELSE IF ok THEN Derivative(image_path, effect)
    ELSE image_path

\* whether applying the effect can succeed: the image must open
EffectOutcomes(image_path, effect, pil, originals) ==
    IF pil /\ effect # "none" /\ image_path[2] \in originals
    THEN BOOLEAN ELSE {FALSE}

\* _aggressive_effect_cleanup: every effect_* file goes, except those whose
\* unlink raised
AggressiveCleanup(temps, undeletable) == temps \cap undeletable

\* A routine cleanup that removes every effect file whatever its age.
CleanupTempFilesAll(temps, old, undeletable) == temps \cap undeletable

\* _cleanup_temp_files: effect_* files older than two minutes go, except
\* those whose unlink raised
CleanupTempFiles(temps, old, undeletable) == temps \ (old \ undeletable)

\* A call that goes on to its bookkeeping whatever the dispatch returned.
AfterDispatchRegardless(success) == "dispatched"

\* if success: the bookkeeping follows; else: return False
AfterDispatch(success) == IF success THEN "dispatched" ELSE "done"

\* the wallpaper tools refuse a file that is not there
DispatchOutcomes(p, originals, temps) ==
    IF ExistsFile(p, originals, temps) THEN BOOLEAN ELSE {FALSE}

\* one invocation of an external tool: "swww" and "plasma" set the
\* wallpaper, "matugen" extracts colors; by is who ran it, ok whether it
\* exited with zero (matugen's exit code is of no consequence to the call
\* and is recorded as zero)
Invocation(tool, path, by, ok) ==
    [tool |-> tool, path |-> path, by |-> by, ok |-> ok]

SetterTools == {"swww", "plasma"}

\* NiriBackend.set_wallpaper: one swww img, False when it exits non-zero
NiriSetWallpaper(wallpaper_path, ok) ==
    [success |-> ok,
     tools |-> <<Invocation("swww", wallpaper_path, "backend", ok)>>]

\* KDEBackend._generate_matugen_colors: matugen on the path it is given,
\* when matugen is installed and enabled
GenerateMatugenColors(wallpaper_path, matugen) ==
    IF matugen THEN <<Invocation("matugen", wallpaper_path, "backend", TRUE)>>
    ELSE <<>>

\* the native method with the color extraction after the wallpaper tool
KdeNativeColorsAfter(wallpaper_path, matugen, ok) ==
    [success |-> ok,
     tools |-> <<Invocation("plasma", wallpaper_path, "backend", ok)>>
               \o GenerateMatugenColors(wallpaper_path, matugen)]

\* KDEBackend._set_wallpaper_kde_native: matugen, then
\* plasma-apply-wallpaperimage
KdeNative(wallpaper_path, matugen, ok) ==
    [success |-> ok,
     tools |-> GenerateMatugenColors(wallpaper_path, matugen)
               \o <<Invocation("plasma", wallpaper_path, "backend", ok)>>]

\* the swww method falling back to itself once more before the native one
KdeSwwwRetry(wallpaper_path, matugen, ok, fallback_ok) ==
    LET first == GenerateMatugenColors(wallpaper_path, matugen)
                 \o <<Invocation("swww", wallpaper_path, "backend", ok)>>
    IN  IF ok THEN [success |-> TRUE, tools |-> first]
        ELSE LET native == KdeNative(wallpaper_path, matugen, fallback_ok)
             IN  [success |-> native.success,
                  tools |-> first \o first \o native.tools]

\* KDEBackend._set_wallpaper_swww: matugen, then swww img; when swww exits
\* non-zero, the native method
KdeSwww(wallpaper_path, matugen, ok, fallback_ok) ==
    LET first == GenerateMatugenColors(wallpaper_path, matugen)
                 \o <<Invocation("swww", wallpaper_path, "backend", ok)>>
    IN  IF ok THEN [success |-> TRUE, tools |-> first]
        ELSE LET native == KdeNative(wallpaper_path, matugen, fallback_ok)
             IN  [success |-> native.success,
                  tools |-> first \o native.tools]

\* KDEBackend.set_wallpaper: swww when it runs and a transition is wanted,
\* the native method otherwise
KdeSetWallpaper(swww, wallpaper_path, transition, matugen, ok, fallback_ok) ==
    IF swww /\ transition # "none"
    THEN KdeSwww(wallpaper_path, matugen, ok, fallback_ok)
    ELSE KdeNative(wallpaper_path, matugen, ok)

\* a manager proxy that hands the call to the Niri backend when it has none
ManagerSetWallpaperAnyway(b, swww, wallpaper_path, transition, matugen, ok, fallback_ok) ==
    IF b = "kde"
    THEN KdeSetWallpaper(swww, wallpaper_path, transition, matugen, ok,
                         fallback_ok)
    ELSE NiriSetWallpaper(wallpaper_path, ok)

\* BackendManager.set_wallpaper: the active backend's set_wallpaper, False
\* without one
ManagerSetWallpaper(b, swww, wallpaper_path, transition, matugen, ok, fallback_ok) ==
    IF b = NoBackend THEN [success |-> FALSE, tools |-> <<>>]
    ELSE IF b = "kde"
    THEN KdeSetWallpaper(swww, wallpaper_path, transition, matugen, ok,
                         fallback_ok)
    ELSE NiriSetWallpaper(wallpaper_path, ok)

\* the GUI's direct path: one swww img
DirectSetWallpaper(processed_path, ok) ==
    [success |-> ok,
     tools |-> <<Invocation("swww", processed_path, "pipeline", ok)>>]

\* the pointer update writes the processed path
LinkTargetProcessed(c) == c.processed

\* what the pointer update links to: image_path / wallpaper_path
LinkTarget(c) == c.image

\* get_monitors(): the attached connectors, in the order the tool lists them
Discover(attached) == SelectSeq(ConnectorOrder, LAMBDA c : c \in attached)

NoWallpapers == [c \in Connectors |-> NoPath]

TrackOutcomes == {"ok", "readfail", "openfail", "writefail"}

\* set_monitor_wallpaper: read the document ({} when unreadable), set one
\* entry, write the whole document back in place; every exception swallowed
SetMonitorWallpaper(doc, monitor, wallpaper_path, outcome) ==
    CASE outcome = "ok"        -> [doc EXCEPT ![monitor] = wallpaper_path]
      [] outcome = "readfail"  -> [NoWallpapers EXCEPT ![monitor] = wallpaper_path]
      [] outcome = "openfail"  -> doc
      [] outcome = "writefail" -> NoWallpapers

RECURSIVE TrackAll(_, _, _, _)
TrackAll(doc, monitors, wallpaper_path, outcomes) ==
    IF monitors = <<>> THEN doc
    ELSE TrackAll(SetMonitorWallpaper(doc, Head(monitors), wallpaper_path,
                                      outcomes[Head(monitors)]),
                  Tail(monitors), wallpaper_path, outcomes)

\* the backend get_backend_manager() finds for wall-it-common: the root copy
\* of the manager, which has no KDE backend beside it
CommonBackends(b) == IF b = "kde" THEN {NoBackend, "niri"} ELSE {b}

NoSent == [path |-> NoPath, monitor |-> NoMonitor, transition |-> ""]

IdleCall ==
    [pc |-> "idle", entry |-> "gui", image |-> NoPath, monitor |-> NoMonitor,
     transition |-> "", effect |-> "none", backend |-> NoBackend,
     processed |-> NoPath, effect_changing |-> FALSE, sent |-> NoSent,
     success |-> FALSE, result |-> "pending", linkBefore |-> NoPath,
     linkFailed |-> FALSE, enumerated |-> FALSE, enumFailed |-> FALSE,
     attached |-> {}, trackFailed |-> {}, colorsFrom |-> NoPath,
     tools |-> <<>>]

\* What earlier sessions left behind: nothing (a fresh install), b.png
\* applied to all monitors as it is, or b.png applied with the blur effect.
Leftovers ==
    { [link |-> NoPath, effect |-> "none", temps |-> {},
       tracked |-> NoWallpapers],
      [link |-> Original("b.png"), effect |-> "none", temps |-> {},
       tracked |-> [c \in Connectors |-> Original("b.png")]],
      [link |-> Original("b.png"), effect |-> "blur",
       temps |-> {Derivative(Original("b.png"), "blur")},
       tracked |-> [c \in Connectors |-> Original("b.png")]] }

ApplyInit ==
    /\ backend \in {NoBackend, "niri", "kde"}
    /\ swwwAvailable \in BOOLEAN
    /\ (backend # "kde") => swwwAvailable
    /\ pilAvailable \in BOOLEAN
    /\ wallpapers = Images
    /\ \E left \in Leftovers :
         /\ tempFiles = left.temps
         /\ currentWallpaper = left.link
         /\ currentEffect = left.effect
         /\ monitorWallpapers = left.tracked
    /\ tempLink = NoPath
    /\ connected = Connectors
    /\ availableMonitors = (IF backend = NoBackend THEN <<>> ELSE Discover(connected))
    /\ call = IdleCall
    /\ napplies = 0

\* WallpaperSetter.set_wallpaper up to the dispatch: effect marker read,
\* cleanups, photo effect, effect marker write
GuiPrepare(image_path, monitor, transition, effect) ==
    /\ call.pc = "idle"
    /\ napplies < MaxApplies
    /\ napplies' = napplies + 1
    /\ LET effect_changing == (effect # currentEffect)
       IN \E undeletable \in SUBSET tempFiles, old \in SUBSET tempFiles,
             ok \in EffectOutcomes(image_path, effect, pilAvailable, wallpapers) :
            LET swept == IF effect_changing
                         THEN AggressiveCleanup(tempFiles, undeletable)
                         ELSE tempFiles
                kept == CleanupTempFiles(swept, old, undeletable)
                processed_path == PhotoEffectsApply(image_path, effect,
                                                    pilAvailable, ok)
            IN /\ tempFiles' = kept \cup (IF IsDerivative(processed_path)
                                          THEN {processed_path} ELSE {})
               /\ currentEffect' = effect
               /\ call' = [IdleCall EXCEPT
                               !.pc = "prepared", !.entry = "gui",
                               !.image = image_path, !.monitor = monitor,
                               !.transition = transition, !.effect = effect,
                               !.backend = backend,
                               !.processed = processed_path,
                               !.effect_changing = effect_changing]
    /\ UNCHANGED <<backend, swwwAvailable, pilAvailable, wallpapers,
                   currentWallpaper, tempLink, monitorWallpapers, connected,
                   availableMonitors>>
    /\ UNCHANGED <<detectVars, storeVars, rateVars, parseVars, toolVars, cleanVars, timerVars, shareVars, msmVars, raceVars, effectVars>>

\* the dispatch: through the backend manager when it has a backend,
\* otherwise swww directly
GuiDispatch ==
    /\ call.pc = "prepared"
    /\ call.entry = "gui"
    /\ LET transition ==
               IF call.backend # NoBackend
               THEN GuiTransition(call.transition,
                                  SupportsTransitions(call.backend, swwwAvailable))
               ELSE DirectTransition(call.transition, call.effect_changing)
       IN \E ok \in DispatchOutcomes(call.processed, wallpapers, tempFiles),
             fallback_ok \in DispatchOutcomes(call.processed, wallpapers,
                                              tempFiles),
             matugen \in BOOLEAN :
            LET set == IF call.backend # NoBackend
                       THEN ManagerSetWallpaper(call.backend, swwwAvailable,
                                                call.processed, transition,
                                                matugen, ok, fallback_ok)
                       ELSE DirectSetWallpaper(call.processed, ok)
            IN  call' = [call EXCEPT
                             !.sent = [path |-> call.processed,
                                       monitor |-> call.monitor,
                                       transition |-> transition],
                             !.success = set.success,
                             !.tools = set.tools,
                             !.linkBefore = currentWallpaper,
                             !.pc = AfterDispatch(set.success),
                             !.result = IF set.success THEN "pending"
                                        ELSE "False"]
    /\ UNCHANGED <<backend, swwwAvailable, pilAvailable, wallpapers, tempFiles,
                   currentWallpaper, tempLink, currentEffect,
                   monitorWallpapers, connected, availableMonitors, napplies>>
    /\ UNCHANGED <<detectVars, storeVars, rateVars, parseVars, toolVars, cleanVars, timerVars, shareVars, msmVars, raceVars, effectVars>>

\* current_wallpaper.unlink() when the pointer is there; an exception leaves
\* through the outer handler, which returns False
GuiUnlink ==
    /\ call.pc = "dispatched"
    /\ call.entry = "gui"
    /\ \/ /\ currentWallpaper' = NoPath
          /\ call' = [call EXCEPT !.pc = "unlinked"]
       \/ /\ currentWallpaper # NoPath
          /\ currentWallpaper' = currentWallpaper
          /\ call' = [call EXCEPT !.pc = "done", !.result = "False",
                                  !.linkFailed = TRUE]
    /\ UNCHANGED <<backend, swwwAvailable, pilAvailable, wallpapers, tempFiles,
                   tempLink, currentEffect, monitorWallpapers, connected,
                   availableMonitors, napplies>>
    /\ UNCHANGED <<detectVars, storeVars, rateVars, parseVars, toolVars, cleanVars, timerVars, shareVars, msmVars, raceVars, effectVars>>

\* current_wallpaper.symlink_to(image_path); an exception returns False
GuiSymlink ==
    /\ call.pc = "unlinked"
    /\ \/ /\ currentWallpaper' = LinkTarget(call)
          /\ call' = [call EXCEPT !.pc = "linked"]
       \/ /\ currentWallpaper' = currentWallpaper
          /\ call' = [call EXCEPT !.pc = "done", !.result = "False",
                                  !.linkFailed = TRUE]
    /\ UNCHANGED <<backend, swwwAvailable, pilAvailable, wallpapers, tempFiles,
                   tempLink, currentEffect, monitorWallpapers, connected,
                   availableMonitors, napplies>>
    /\ UNCHANGED <<detectVars, storeVars, rateVars, parseVars, toolVars, cleanVars, timerVars, shareVars, msmVars, raceVars, effectVars>>

\* per-monitor tracking: the given monitor, or every monitor of a discovery
\* made now.  The backend's get_monitors() can raise (the outer handler then
\* returns False) or come back empty; the direct path's MonitorManager
\* swallows its errors and comes back empty.
GuiTrack ==
    /\ call.pc = "linked"
    /\ \/ /\ call.monitor # NoMonitor
          /\ \E outcome \in TrackOutcomes :
               /\ monitorWallpapers' =
                      SetMonitorWallpaper(monitorWallpapers, call.monitor,
                                          call.image, outcome)
               /\ call' = [call EXCEPT
                               !.pc = "tracked",
                               !.trackFailed = IF outcome = "ok" THEN {}
                                               ELSE {call.monitor}]
       \/ /\ call.monitor = NoMonitor
          /\ \E outcomes \in [Connectors -> TrackOutcomes] :
               /\ monitorWallpapers' =
                      TrackAll(monitorWallpapers, Discover(connected),
                               call.image, outcomes)
               /\ call' = [call EXCEPT
                               !.pc = "tracked", !.enumerated = TRUE,
                               !.attached = connected,
                               !.trackFailed = {c \in connected :
                                                   outcomes[c] # "ok"}]
       \/ /\ call.monitor = NoMonitor
          /\ monitorWallpapers' = monitorWallpapers
          /\ call' = [call EXCEPT !.pc = "tracked", !.enumerated = TRUE,
                                  !.enumFailed = TRUE, !.attached = connected]
       \/ /\ call.monitor = NoMonitor
          /\ call.backend # NoBackend
          /\ monitorWallpapers' = monitorWallpapers
          /\ call' = [call EXCEPT !.pc = "done", !.result = "False",
                                  !.enumerated = TRUE, !.enumFailed = TRUE,
                                  !.attached = connected]
    /\ UNCHANGED <<backend, swwwAvailable, pilAvailable, wallpapers, tempFiles,
                   currentWallpaper, tempLink, currentEffect, connected,
                   availableMonitors, napplies>>
    /\ UNCHANGED <<detectVars, storeVars, rateVars, parseVars, toolVars, cleanVars, timerVars, shareVars, msmVars, raceVars, effectVars>>

\* color generation from the original when matugen is enabled (its failures
\* are swallowed), update_current_index, return True
GuiFinish ==
    /\ call.pc = "tracked"
    /\ \E enabled \in BOOLEAN :
         call' = [call EXCEPT !.pc = "done", !.result = "True",
                              !.colorsFrom = IF enabled THEN call.image
                                             ELSE NoPath,
                              !.tools = IF enabled
                                        THEN Append(@, Invocation("matugen",
                                                 call.image, "pipeline", TRUE))
                                        ELSE @]
    /\ UNCHANGED <<backend, swwwAvailable, pilAvailable, wallpapers, tempFiles,
                   currentWallpaper, tempLink, currentEffect,
                   monitorWallpapers, connected, availableMonitors, napplies>>
    /\ UNCHANGED <<detectVars, storeVars, rateVars, parseVars, toolVars, cleanVars, timerVars, shareVars, msmVars, raceVars, effectVars>>

\* wall-it-common set_wallpaper up to the dispatch: photo effect (the image
\* itself when it cannot be applied), target monitor from the keybind mode
CommonPrepare(wallpaper_path, transition, effect) ==
    /\ call.pc = "idle"
    /\ napplies < MaxApplies
    /\ napplies' = napplies + 1
    /\ \E b \in CommonBackends(backend) :
       \E target_monitor \in {NoMonitor} \cup (IF b = NoBackend THEN {} ELSE connected),
          ok \in EffectOutcomes(wallpaper_path, effect, pilAvailable, wallpapers) :
         LET processed_path == PhotoEffectsApply(wallpaper_path, effect,
                                                 pilAvailable, ok)
         IN /\ tempFiles' = tempFiles \cup (IF IsDerivative(processed_path)
                                            THEN {processed_path} ELSE {})
            /\ call' = [IdleCall EXCEPT
                            !.pc = "prepared", !.entry = "common",
                            !.image = wallpaper_path,
                            !.monitor = target_monitor,
                            !.transition = transition, !.effect = effect,
                            !.backend = b, !.processed = processed_path]
    /\ UNCHANGED <<backend, swwwAvailable, pilAvailable, wallpapers,
                   currentWallpaper, tempLink, currentEffect,
                   monitorWallpapers, connected, availableMonitors>>
    /\ UNCHANGED <<detectVars, storeVars, rateVars, parseVars, toolVars, cleanVars, timerVars, shareVars, msmVars, raceVars, effectVars>>

\* validate_transition, then backend_manager.set_wallpaper, which is False
\* without a backend; a failed dispatch is what the call returns
CommonDispatch ==
    /\ call.pc = "prepared"
    /\ call.entry = "common"
    /\ LET transition ==
               validate_transition(call.transition,
                                   SupportsTransitions(call.backend, swwwAvailable))
       IN \E ok \in DispatchOutcomes(call.processed, wallpapers, tempFiles) :
            LET set == ManagerSetWallpaper(call.backend, swwwAvailable,
                                           call.processed, transition,
                                           FALSE, ok, ok)
            IN  call' = [call EXCEPT
                             !.sent = IF call.backend = NoBackend THEN NoSent
                                      ELSE [path |-> call.processed,
                                            monitor |-> call.monitor,
                                            transition |-> transition],
                             !.success = set.success,
                             !.tools = set.tools,
                             !.linkBefore = currentWallpaper,
                             !.pc = AfterDispatch(set.success),
                             !.result = IF set.success THEN "pending"
                                        ELSE "False"]
    /\ UNCHANGED <<backend, swwwAvailable, pilAvailable, wallpapers, tempFiles,
                   currentWallpaper, tempLink, currentEffect,
                   monitorWallpapers, connected, availableMonitors, napplies>>
    /\ UNCHANGED <<detectVars, storeVars, rateVars, parseVars, toolVars, cleanVars, timerVars, shareVars, msmVars, raceVars, effectVars>>

\* update_wallpaper_symlink, first half: drop a left-over temp link, make
\* the temp link.  An exception is swallowed and the call returns True.
CommonTempLink ==
    /\ call.pc = "dispatched"
    /\ call.entry = "common"
    /\ \/ /\ tempLink' = LinkTarget(call)
          /\ call' = [call EXCEPT !.pc = "templinked"]
       \/ /\ tempLink' = tempLink
          /\ call' = [call EXCEPT !.pc = "done", !.result = "True",
                                  !.linkFailed = TRUE]
    /\ UNCHANGED <<backend, swwwAvailable, pilAvailable, wallpapers, tempFiles,
                   currentWallpaper, currentEffect, monitorWallpapers,
                   connected, availableMonitors, napplies>>
    /\ UNCHANGED <<detectVars, storeVars, rateVars, parseVars, toolVars, cleanVars, timerVars, shareVars, msmVars, raceVars, effectVars>>

\* update_wallpaper_symlink, second half: temp_link.replace(pointer), one
\* rename.  An exception is swallowed and the call returns True.
CommonReplace ==
    /\ call.pc = "templinked"
    /\ \/ /\ currentWallpaper' = tempLink
          /\ tempLink' = NoPath
          /\ call' = [call EXCEPT !.pc = "done", !.result = "True"]
       \/ /\ UNCHANGED <<currentWallpaper, tempLink>>
          /\ call' = [call EXCEPT !.pc = "done", !.result = "True",
                                  !.linkFailed = TRUE]
    /\ UNCHANGED <<backend, swwwAvailable, pilAvailable, wallpapers, tempFiles,
                   currentEffect, monitorWallpapers, connected,
                   availableMonitors, napplies>>
    /\ UNCHANGED <<detectVars, storeVars, rateVars, parseVars, toolVars, cleanVars, timerVars, shareVars, msmVars, raceVars, effectVars>>

\* the call has returned; the next one may start
Return ==
    /\ call.pc = "done"
    /\ call' = IdleCall
    /\ UNCHANGED <<backend, swwwAvailable, pilAvailable, wallpapers, tempFiles,
                   currentWallpaper, tempLink, currentEffect,
                   monitorWallpapers, connected, availableMonitors, napplies>>
    /\ UNCHANGED <<detectVars, storeVars, rateVars, parseVars, toolVars, cleanVars, timerVars, shareVars, msmVars, raceVars, effectVars>>

\* a monitor is plugged in or out; the GUI's available_monitors, read once
\* when the window was built, does not follow.  The attached connectors are
\* read when a call starts and when it enumerates, so a change matters only
\* just before those points.
Hotplug(c) ==
    /\ call.pc \in {"idle", "linked"}
    /\ connected' = (IF c \in connected THEN connected \ {c}
                     ELSE connected \cup {c})
    /\ UNCHANGED <<backend, swwwAvailable, pilAvailable, wallpapers, tempFiles,
                   currentWallpaper, tempLink, currentEffect,
                   monitorWallpapers, availableMonitors, call, napplies>>
    /\ UNCHANGED <<detectVars, storeVars, rateVars, parseVars, toolVars, cleanVars, timerVars, shareVars, msmVars, raceVars, effectVars>>

\* the monitors the GUI's dropdown offers: All, or one of available_monitors
Selectable == {NoMonitor} \cup {availableMonitors[i] : i \in 1..Len(availableMonitors)}

Next ==
    \/ \E n \in Images \cup {MissingImage}, m \in Selectable,
          t \in Transitions, e \in Effects :
          GuiPrepare(Original(n), m, t, e)
    \/ GuiDispatch
    \/ GuiUnlink
    \/ GuiSymlink
    \/ GuiTrack
    \/ GuiFinish
    \/ \E n \in Images \cup {MissingImage}, t \in Transitions, e \in Effects :
          CommonPrepare(Original(n), t, e)
    \/ CommonDispatch
    \/ CommonTempLink
    \/ CommonReplace
    \/ Return
    \/ \E c \in Hotpluggable : Hotplug(c)

ApplyQuiet ==
    /\ backend = NoBackend
    /\ swwwAvailable = FALSE
    /\ pilAvailable = FALSE
    /\ wallpapers = Images
    /\ tempFiles = {}
    /\ currentWallpaper = NoPath
    /\ tempLink = NoPath
    /\ currentEffect = "none"
    /\ monitorWallpapers = NoWallpapers
    /\ connected = {}
    /\ availableMonitors = <<>>
    /\ call = IdleCall
    /\ napplies = 0

----------------------------------------------------------------------------
(* Monitor discovery parsers: NiriBackend.get_monitors (both copies of the *)
(* backend manager), MonitorManager._detect_niri_monitors,                 *)
(* HyprlandBackend.get_monitors, MonitorManager._detect_hyprland_monitors  *)

\* JSON null, Python None
Null == "<null>"

\* a key that the JSON object does not have
Absent == "<absent>"

MaxLines == 4

MaxEntries == 3

\* A line of `niri msg outputs` by its parts; a part that the line lacks
\* is empty.
Line(kind, name, connector, resolution, refresh, scale) ==
    [kind |-> kind, name |-> name, connector |-> connector,
     resolution |-> resolution, refresh |-> refresh, scale |-> scale]

\* Output "Dell" (DP-1) / Output "LG" (HDMI-A-1) / Output "Dell" ()
\* Current mode: 3440x1440 @ 155.000 Hz / Current mode: 3440x1440
\* Scale: 1.4 / Scale: 2 / Logical size: 2457x1029
DiscoveryLines ==
    { Line("header", "Dell", "DP-1", "", "", ""),
      Line("header", "LG", "HDMI-A-1", "", "", ""),
      Line("header", "Dell", "", "", "", ""),
      Line("mode", "", "", "3440x1440", "155.000", ""),
      Line("mode", "", "", "3440x1440", "", ""),
      Line("scale", "", "", "", "", "1.4"),
      Line("scale", "", "", "", "", "2"),
      Line("other", "", "", "", "", "") }

\* An element of the `hyprctl monitors -j` array: an object with or
\* without its keys (no resolution: neither width nor height), or something
\* that is not an object.
Entry(object, name, complete, resolution) ==
    [object |-> object, name |-> name, complete |-> complete,
     resolution |-> resolution]

DiscoveryEntries ==
    { Entry(TRUE, "DP-1", TRUE, "3440x1440"),
      Entry(TRUE, "HDMI-A-1", TRUE, "1920x1080"),
      Entry(TRUE, Absent, TRUE, "1920x1080"),
      Entry(TRUE, Null, TRUE, "1920x1080"),
      Entry(TRUE, "HDMI-A-1", FALSE, "1920x1080"),
      Entry(TRUE, "DP-1", FALSE, ""),
      Entry(FALSE, Absent, FALSE, "") }

SeqsUpTo(S, n) == UNION {[1..k -> S] : k \in 0..n}

\* what the tool printed: lines of text, or a JSON document that is an
\* array, an object, or cut short
NoDiscovery == [kind |-> "text", lines |-> <<>>, top |-> "", entries |-> <<>>]

Discoveries ==
    {[NoDiscovery EXCEPT !.lines = ls] : ls \in SeqsUpTo(DiscoveryLines, MaxLines)}
    \cup {[NoDiscovery EXCEPT !.kind = "json", !.top = "array", !.entries = es] :
              es \in SeqsUpTo(DiscoveryEntries, MaxEntries)}
    \cup {[NoDiscovery EXCEPT !.kind = "json", !.top = t] :
              t \in {"object", "truncated"}}

NoParse == [by |-> "none", raised |-> FALSE, monitors |-> <<>>]

Monitor(name, connector, resolution, scale, refresh_rate) ==
    [name |-> name, connector |-> connector, resolution |-> resolution,
     scale |-> scale, refresh_rate |-> refresh_rate]

\* current_monitor = None
NoCurrent == Monitor(Null, Null, "", "", "")

ParserStart == [current_monitor |-> NoCurrent, monitors |-> <<>>]

\* re.compile(r'Output "([^"]+)" \(([^)]+)\)')
output_pattern(line) ==
    line.kind = "header" /\ line.name # "" /\ line.connector # ""

\* re.compile(r'Current mode:\s*(\d+x\d+)\s*@\s*([\d.]+)')
mode_pattern(line) ==
    line.kind = "mode" /\ line.resolution # "" /\ line.refresh # ""

\* re.compile(r'Scale:\s*([\d.]+)')
scale_pattern(line) == line.kind = "scale" /\ line.scale # ""

\* if current_monitor: monitors.append(current_monitor)
Flush(st) ==
    IF st.current_monitor # NoCurrent
    THEN Append(st.monitors, st.current_monitor)
    ELSE st.monitors

\* NiriBackend.get_monitors, the body of the loop over the lines
NiriLine(st, line) ==
    IF output_pattern(line)
    THEN [current_monitor |-> Monitor(line.name, line.connector, "Unknown",
                                      "1.0", "60.0"),
          monitors |-> Flush(st)]
    ELSE IF st.current_monitor = NoCurrent THEN st
    ELSE IF mode_pattern(line)
    THEN [st EXCEPT !.current_monitor.resolution = line.resolution,
                    !.current_monitor.refresh_rate = line.refresh]
    ELSE IF scale_pattern(line)
    THEN [st EXCEPT !.current_monitor.scale = line.scale]
    ELSE st

RECURSIVE NiriLines(_, _)
NiriLines(st, lines) ==
    IF lines = <<>> THEN st
    ELSE NiriLines(NiriLine(st, Head(lines)), Tail(lines))

\* the parser without the append after the loop
NiriGetMonitorsNoFlush(lines) == NiriLines(ParserStart, lines).monitors

\* NiriBackend.get_monitors of wall-it-backend-manager.py
NiriGetMonitors(lines) == Flush(NiriLines(ParserStart, lines))

\* line.startswith('Output "') and '(' in line and ')' in line
CopyIsHeader(line) == line.kind = "header"

\* a part cut out of the header, "Unknown" when it is empty
CopyPart(part) == IF part # "" THEN part ELSE "Unknown"

\* NiriBackend.get_monitors of src/wall-it-backend-manager.py, the body of
\* the loop over the lines
CopyLine(st, line) ==
    IF CopyIsHeader(line)
    THEN [current_monitor |-> Monitor(CopyPart(line.name),
                                      CopyPart(line.connector), "Unknown",
                                      "1.0", "60.0"),
          monitors |-> Flush(st)]
    ELSE IF line.kind = "mode" /\ st.current_monitor # NoCurrent
    THEN IF line.refresh # ""
         THEN [st EXCEPT !.current_monitor.resolution = line.resolution,
                         !.current_monitor.refresh_rate = line.refresh]
         ELSE st
    ELSE IF line.kind = "scale" /\ st.current_monitor # NoCurrent
    THEN [st EXCEPT !.current_monitor.scale = line.scale]
    ELSE st

RECURSIVE CopyLines(_, _)
CopyLines(st, lines) ==
    IF lines = <<>> THEN st
    ELSE CopyLines(CopyLine(st, Head(lines)), Tail(lines))

CopyGetMonitors(lines) == Flush(CopyLines(ParserStart, lines))

\* monitors[key] = value on a dict: an existing key keeps its place
DictSet(monitors, key, value) ==
    IF \E i \in 1..Len(monitors) : monitors[i].connector = key
    THEN [i \in 1..Len(monitors) |->
              IF monitors[i].connector = key THEN value ELSE monitors[i]]
    ELSE Append(monitors, value)

\* monitors[key][field] = value for the entry of current_monitor_id
DictUpdate(monitors, key, resolution, scale, refresh) ==
    [i \in 1..Len(monitors) |->
        IF monitors[i].connector = key
        THEN [monitors[i] EXCEPT
                  !.resolution = IF resolution # "" THEN resolution ELSE @,
                  !.scale = IF scale # "" THEN scale ELSE @,
                  !.refresh_rate = IF refresh # "" THEN refresh ELSE @]
        ELSE monitors[i]]

\* MonitorManager._detect_niri_monitors, the body of the loop over the
\* lines; the dict is kept as its entries in key order
DetectNiriLine(st, line) ==
    IF line.kind = "header"
    THEN [current_monitor_id |-> line.connector,
          monitors |-> DictSet(st.monitors, line.connector,
                               Monitor(line.name, line.connector,
                                       "1920x1080", "1.0", "60.0"))]
    ELSE IF st.current_monitor_id \in {Null, ""} THEN st
    ELSE IF line.kind = "mode"
    THEN IF line.refresh # ""
         THEN [st EXCEPT !.monitors =
                   DictUpdate(@, st.current_monitor_id, line.resolution,
                              "", line.refresh)]
         ELSE st
    ELSE IF line.kind = "scale"
    THEN [st EXCEPT !.monitors =
              DictUpdate(@, st.current_monitor_id, "", line.scale, "")]
    ELSE st

RECURSIVE DetectNiriLines(_, _)
DetectNiriLines(st, lines) ==
    IF lines = <<>> THEN st
    ELSE DetectNiriLines(DetectNiriLine(st, Head(lines)), Tail(lines))

DetectNiriMonitors(lines) ==
    DetectNiriLines([current_monitor_id |-> Null, monitors |-> <<>>],
                    lines).monitors

\* HyprlandBackend.get_monitors over the elements of the array: .get on
\* something that is not an object raises AttributeError, which nothing
\* catches; a missing name is 'Unknown', a null name stays None; width and
\* height default to 0 and are formatted as they are
HyprlandResolution(monitor) ==
    IF monitor.resolution = "" THEN "0x0" ELSE monitor.resolution

RECURSIVE HyprlandEntries(_, _)
HyprlandEntries(monitors, entries) ==
    IF entries = <<>> THEN [raised |-> FALSE, monitors |-> monitors]
    ELSE LET monitor == Head(entries)
             name == IF monitor.name = Absent THEN "Unknown" ELSE monitor.name
         IN  IF ~monitor.object THEN [raised |-> TRUE, monitors |-> <<>>]
             ELSE HyprlandEntries(
                      Append(monitors,
                             Monitor(name, name, HyprlandResolution(monitor),
                                     "", "")),
                      Tail(entries))

\* HyprlandBackend.get_monitors: JSONDecodeError is caught and gives [];
\* iterating an object gives its keys, strings, and .get on the first raises
HyprlandGetMonitors(d) ==
    IF d.top = "truncated" THEN [raised |-> FALSE, monitors |-> <<>>]
    ELSE IF d.top = "object" THEN [raised |-> TRUE, monitors |-> <<>>]
    ELSE HyprlandEntries(<<>>, d.entries)

\* MonitorManager._detect_hyprland_monitors over the elements of the
\* array: the first element that raises (not an object, a key missing)
\* ends the loop in the handler, which returns what was collected
RECURSIVE DetectHyprlandEntries(_, _)
DetectHyprlandEntries(monitors, entries) ==
    IF entries = <<>> THEN monitors
    ELSE LET monitor == Head(entries)
         IN  IF ~monitor.object \/ monitor.name = Absent \/ ~monitor.complete
             THEN monitors
             ELSE DetectHyprlandEntries(
                      DictSet(monitors, monitor.name,
                              Monitor(monitor.name, monitor.name,
                                      monitor.resolution, "", "")),
                      Tail(entries))

DetectHyprlandMonitors(d) ==
    IF d.top # "array" THEN <<>>
    ELSE DetectHyprlandEntries(<<>>, d.entries)

ParseInit ==
    /\ discovery \in Discoveries
    /\ parsed = NoParse

\* NiriBackend.get_monitors on the output of `niri msg outputs`
NiriBackendGetMonitors ==
    /\ discovery.kind = "text"
    /\ parsed = NoParse
    /\ parsed' = [by |-> "NiriBackend", raised |-> FALSE,
                  monitors |-> NiriGetMonitors(discovery.lines)]
    /\ UNCHANGED discovery
    /\ UNCHANGED <<detectVars, storeVars, rateVars, applyVars, toolVars, cleanVars, timerVars, shareVars, msmVars, raceVars, effectVars>>

\* the GUI's copy of NiriBackend.get_monitors
CopyBackendGetMonitors ==
    /\ discovery.kind = "text"
    /\ parsed = NoParse
    /\ parsed' = [by |-> "NiriBackendCopy", raised |-> FALSE,
                  monitors |-> CopyGetMonitors(discovery.lines)]
    /\ UNCHANGED discovery
    /\ UNCHANGED <<detectVars, storeVars, rateVars, applyVars, toolVars, cleanVars, timerVars, shareVars, msmVars, raceVars, effectVars>>

\* MonitorManager._detect_niri_monitors
DetectNiri ==
    /\ discovery.kind = "text"
    /\ parsed = NoParse
    /\ parsed' = [by |-> "MonitorManagerNiri", raised |-> FALSE,
                  monitors |-> DetectNiriMonitors(discovery.lines)]
    /\ UNCHANGED discovery
    /\ UNCHANGED <<detectVars, storeVars, rateVars, applyVars, toolVars, cleanVars, timerVars, shareVars, msmVars, raceVars, effectVars>>

\* HyprlandBackend.get_monitors on the output of `hyprctl monitors -j`
HyprlandBackendGetMonitors ==
    /\ discovery.kind = "json"
    /\ parsed = NoParse
    /\ LET r == HyprlandGetMonitors(discovery)
       IN  parsed' = [by |-> "HyprlandBackend", raised |-> r.raised,
                      monitors |-> r.monitors]
    /\ UNCHANGED discovery
    /\ UNCHANGED <<detectVars, storeVars, rateVars, applyVars, toolVars, cleanVars, timerVars, shareVars, msmVars, raceVars, effectVars>>

\* MonitorManager._detect_hyprland_monitors
DetectHyprland ==
    /\ discovery.kind = "json"
    /\ parsed = NoParse
    /\ parsed' = [by |-> "MonitorManagerHyprland", raised |-> FALSE,
                  monitors |-> DetectHyprlandMonitors(discovery)]
    /\ UNCHANGED discovery
    /\ UNCHANGED <<detectVars, storeVars, rateVars, applyVars, toolVars, cleanVars, timerVars, shareVars, msmVars, raceVars, effectVars>>

ParseNext ==
    \/ NiriBackendGetMonitors
    \/ CopyBackendGetMonitors
    \/ DetectNiri
    \/ HyprlandBackendGetMonitors
    \/ DetectHyprland

\* The parser part at rest, for the specifications of the other parts.
ParseQuiet ==
    /\ discovery = NoDiscovery
    /\ parsed = NoParse

----------------------------------------------------------------------------
(* Backend queries: is_available, get_monitors and get_active_monitor as   *)
(* functions of what the external tools do                                 *)

Binaries == {"swww", "niri", "qdbus", "hyprctl", "wlr-randr"}

\* a binary exits with zero, exits non-zero (subprocess.run with check=True
\* raises CalledProcessError), or is not installed (subprocess.run raises
\* FileNotFoundError).  None of these calls passes a timeout.
ToolOutcomes == {"ok", "nonzero", "missing"}

Desktops == {"niri", "KDE", "Hyprland"}

\* `niri msg focused-output` when niri runs: it exits non-zero, prints no
\* output line, or prints the line of HDMI-A-1
FocusOutcomes == {"error", "nothing", "HDMI-A-1"}

OutputLists == {<<>>, <<"DP-1", "HDMI-A-1">>}

NoAnswer == [fn |-> "none", raised |-> FALSE, available |-> "", monitor |-> "",
             monitors |-> <<>>]

Raises(fn) == [NoAnswer EXCEPT !.fn = fn, !.raised = TRUE]

Available(fn, b) ==
    [NoAnswer EXCEPT !.fn = fn, !.available = IF b THEN "True" ELSE "False"]

Monitors(fn, ms) == [NoAnswer EXCEPT !.fn = fn, !.monitors = ms]

ActiveMonitor(fn, m) == [NoAnswer EXCEPT !.fn = fn, !.monitor = m]

\* NiriBackend.is_available: swww query, then which niri; only
\* CalledProcessError is caught
NiriIsAvailable(env) ==
    IF env["swww"] = "missing" THEN Raises("NiriBackend.is_available")
    ELSE Available("NiriBackend.is_available",
                   env["swww"] = "ok" /\ env["niri"] # "missing")

\* KDEBackend.is_available: the desktop name, then qdbus; only
\* CalledProcessError is caught
KdeIsAvailable(env, d) ==
    IF d # "KDE" THEN Available("KDEBackend.is_available", FALSE)
    ELSE IF env["qdbus"] = "missing" THEN Raises("KDEBackend.is_available")
    ELSE Available("KDEBackend.is_available", env["qdbus"] = "ok")

\* HyprlandBackend.is_available: the desktop name, then hyprctl monitors;
\* only CalledProcessError is caught
HyprlandIsAvailable(env, d) ==
    IF d # "Hyprland" THEN Available("HyprlandBackend.is_available", FALSE)
    ELSE IF env["hyprctl"] = "missing"
    THEN Raises("HyprlandBackend.is_available")
    ELSE Available("HyprlandBackend.is_available", env["hyprctl"] = "ok")

\* NiriBackend.get_monitors as a function of the tools: niri msg outputs;
\* on CalledProcessError swww query, on its CalledProcessError nothing; a
\* missing binary raises FileNotFoundError through both handlers
NiriMonitors(env, listed) ==
    IF env["niri"] = "missing" THEN Raises("NiriBackend.get_monitors")
    ELSE IF env["niri"] = "ok" THEN Monitors("NiriBackend.get_monitors", listed)
    ELSE IF env["swww"] = "missing" THEN Raises("NiriBackend.get_monitors")
    ELSE IF env["swww"] = "ok" THEN Monitors("NiriBackend.get_monitors", listed)
    ELSE Monitors("NiriBackend.get_monitors", <<>>)

\* LabwcBackend.get_monitors: wlr-randr; on CalledProcessError one monitor
\* named 'default'
LabwcMonitors(env, listed) ==
    IF env["wlr-randr"] = "missing" THEN Raises("LabwcBackend.get_monitors")
    ELSE IF env["wlr-randr"] = "ok"
    THEN Monitors("LabwcBackend.get_monitors", listed)
    ELSE Monitors("LabwcBackend.get_monitors", <<"default">>)

\* HyprlandBackend.get_monitors as a function of the tools: hyprctl
\* monitors -j; on CalledProcessError nothing
HyprlandMonitors(env, listed) ==
    IF env["hyprctl"] = "missing" THEN Raises("HyprlandBackend.get_monitors")
    ELSE IF env["hyprctl"] = "ok"
    THEN Monitors("HyprlandBackend.get_monitors", listed)
    ELSE Monitors("HyprlandBackend.get_monitors", <<>>)

\* the first monitor of a list, None when it is empty
FirstOf(ms) == IF ms = <<>> THEN Null ELSE ms[1]

\* NiriBackend.get_active_monitor: niri msg focused-output; the output line
\* it prints, else the first monitor of get_monitors(); on
\* CalledProcessError None
NiriActiveMonitor(env, focus, listed) ==
    LET fn == "NiriBackend.get_active_monitor"
    IN  IF env["niri"] = "missing" THEN Raises(fn)
        ELSE IF env["niri"] = "nonzero" \/ focus = "error"
        THEN ActiveMonitor(fn, Null)
        ELSE IF focus # "nothing" THEN ActiveMonitor(fn, focus)
        ELSE LET found == NiriMonitors(env, listed)
             IN  IF found.raised THEN Raises(fn)
                 ELSE ActiveMonitor(fn, FirstOf(found.monitors))

\* MonitorManager._get_niri_focused_monitor: the queries are run without
\* check, so a non-zero exit goes on to the first of the monitors found at
\* construction; any exception (a missing binary) returns None
MonitorManagerFocused(env, focus, found) ==
    LET fn == "MonitorManager._get_niri_focused_monitor"
    IN  IF env["niri"] = "missing" THEN ActiveMonitor(fn, Null)
        ELSE IF env["niri"] = "ok" /\ focus \notin {"error", "nothing"}
        THEN ActiveMonitor(fn, focus)
        ELSE ActiveMonitor(fn, FirstOf(found))

\* HyprlandBackend.get_active_monitor: one hyprctl monitors -j; the focused
\* monitor, else the first; any exception returns None
HyprlandActiveMonitor(env, focus, listed) ==
    LET fn == "HyprlandBackend.get_active_monitor"
    IN  IF env["hyprctl"] # "ok" THEN ActiveMonitor(fn, Null)
        ELSE IF focus \notin {"error", "nothing"} /\ listed # <<>>
        THEN ActiveMonitor(fn, focus)
        ELSE ActiveMonitor(fn, FirstOf(listed))

ToolsInit ==
    /\ toolEnv \in [Binaries -> ToolOutcomes]
    /\ desktop \in Desktops
    /\ focusQuery \in FocusOutcomes
    /\ outputs \in OutputLists
    /\ cached \in OutputLists
    /\ asked = NoAnswer

\* one query is made in the environment as it is
Ask(answer) ==
    /\ asked = NoAnswer
    /\ asked' = answer
    /\ UNCHANGED <<toolEnv, desktop, focusQuery, outputs, cached>>
    /\ UNCHANGED <<detectVars, storeVars, rateVars, applyVars, parseVars, cleanVars, timerVars, shareVars, msmVars, raceVars, effectVars>>

AskNiriIsAvailable == Ask(NiriIsAvailable(toolEnv))

AskKdeIsAvailable == Ask(KdeIsAvailable(toolEnv, desktop))

AskHyprlandIsAvailable == Ask(HyprlandIsAvailable(toolEnv, desktop))

AskNiriMonitors == Ask(NiriMonitors(toolEnv, outputs))

AskLabwcMonitors == Ask(LabwcMonitors(toolEnv, outputs))

AskHyprlandMonitors == Ask(HyprlandMonitors(toolEnv, outputs))

AskNiriActiveMonitor == Ask(NiriActiveMonitor(toolEnv, focusQuery, outputs))

AskMonitorManagerFocused ==
    Ask(MonitorManagerFocused(toolEnv, focusQuery, cached))

AskHyprlandActiveMonitor ==
    Ask(HyprlandActiveMonitor(toolEnv, focusQuery, outputs))

ToolsNext ==
    \/ AskNiriIsAvailable
    \/ AskKdeIsAvailable
    \/ AskHyprlandIsAvailable
    \/ AskNiriMonitors
    \/ AskLabwcMonitors
    \/ AskHyprlandMonitors
    \/ AskNiriActiveMonitor
    \/ AskMonitorManagerFocused
    \/ AskHyprlandActiveMonitor

\* The query part at rest, for the specifications of the other parts.
ToolsQuiet ==
    /\ toolEnv = [b \in Binaries |-> "ok"]
    /\ desktop = "niri"
    /\ focusQuery = "nothing"
    /\ outputs = <<>>
    /\ cached = <<>>
    /\ asked = NoAnswer

----------------------------------------------------------------------------
(* Temp-directory cleanup: src/src/wallpaper-gui.py, set_wallpaper lines   *)
(* 2154-2178, _cleanup_temp_files and _aggressive_effect_cleanup. One call *)
(* is followed statement by statement; files age while it runs.            *)

PreviewFile == <<"preview", "a.png">>

CleanFiles ==
    {Derivative(Original(i), e) : i \in Images, e \in Effects \ {"none"}}
    \cup {PreviewFile}

\* temp_dir.glob('effect_*')
EffectFiles(dir) == {f \in dir : f[1] \in Effects \ {"none"}}

\* temp_dir.glob('preview_*')
PreviewFiles(dir) == {f \in dir : f[1] = "preview"}

IdleSw ==
    [pc |-> "idle", image |-> NoPath, effect |-> "none", before |-> "none",
     effect_changing |-> FALSE, processed |-> NoPath, log |-> <<>>,
     swept |-> {}, cleaned |-> {}, oldSeen |-> {}]

CleanInit ==
    /\ tempDir \in SUBSET CleanFiles
    /\ aged \in SUBSET tempDir
    /\ recorded \in Effects
    /\ sw = IdleSw

\* current_effect = self.get_current_effect()
\* effect_changing = (effect != current_effect)
SetWallpaperDecide(image_path, effect) ==
    /\ sw.pc \in {"idle", "done"}
    /\ sw' = [IdleSw EXCEPT !.pc = "decided", !.image = image_path,
                            !.effect = effect, !.before = recorded,
                            !.effect_changing = (effect # recorded)]
    /\ UNCHANGED <<tempDir, aged, recorded>>
    /\ UNCHANGED <<detectVars, storeVars, rateVars, applyVars, parseVars, toolVars, timerVars, shareVars, msmVars, raceVars, effectVars>>

\* if effect_changing: self._aggressive_effect_cleanup()
SetWallpaperAggressive ==
    /\ sw.pc = "decided"
    /\ IF sw.effect_changing
       THEN \E undeletable \in SUBSET tempDir :
              LET globbed == EffectFiles(tempDir) \cup PreviewFiles(tempDir)
                  left == AggressiveCleanup(globbed, undeletable)
              IN /\ tempDir' = (tempDir \ globbed) \cup left
                 /\ aged' = aged \cap tempDir'
                 /\ sw' = [sw EXCEPT !.pc = "swept",
                                     !.log = Append(@, "aggressive"),
                                     !.swept = globbed \ left]
       ELSE /\ sw' = [sw EXCEPT !.pc = "swept"]
            /\ UNCHANGED <<tempDir, aged>>
    /\ UNCHANGED recorded
    /\ UNCHANGED <<detectVars, storeVars, rateVars, applyVars, parseVars, toolVars, timerVars, shareVars, msmVars, raceVars, effectVars>>

\* self._cleanup_temp_files()
SetWallpaperRoutine ==
    /\ sw.pc = "swept"
    /\ \E undeletable \in SUBSET tempDir :
         LET globbed == EffectFiles(tempDir)
             left == CleanupTempFiles(globbed, aged, undeletable)
         IN /\ tempDir' = (tempDir \ globbed) \cup left
            /\ aged' = aged \cap tempDir'
            /\ sw' = [sw EXCEPT !.pc = "cleaned",
                                !.log = Append(@, "routine"),
                                !.cleaned = globbed \ left,
                                !.oldSeen = aged]
    /\ UNCHANGED recorded
    /\ UNCHANGED <<detectVars, storeVars, rateVars, applyVars, parseVars, toolVars, timerVars, shareVars, msmVars, raceVars, effectVars>>

\* processed_path = PhotoEffects.apply_effect(...); self.set_current_effect(effect)
SetWallpaperEffect ==
    /\ sw.pc = "cleaned"
    /\ \E pil \in BOOLEAN :
       \E ok \in EffectOutcomes(sw.image, sw.effect, pil, Images) :
         LET processed_path == PhotoEffectsApply(sw.image, sw.effect, pil, ok)
             made == IF IsDerivative(processed_path) THEN {processed_path} ELSE {}
         IN /\ tempDir' = tempDir \cup made
            /\ aged' = aged \ made
            /\ sw' = [sw EXCEPT !.pc = "produced",
                                !.processed = processed_path,
                                !.log = Append(@, "effect")]
    /\ recorded' = sw.effect
    /\ UNCHANGED <<detectVars, storeVars, rateVars, applyVars, parseVars, toolVars, timerVars, shareVars, msmVars, raceVars, effectVars>>

\* the dispatch of processed_path and the rest of the call
SetWallpaperDispatch ==
    /\ sw.pc = "produced"
    /\ sw' = [sw EXCEPT !.pc = "done", !.log = Append(@, "dispatch")]
    /\ UNCHANGED <<tempDir, aged, recorded>>
    /\ UNCHANGED <<detectVars, storeVars, rateVars, applyVars, parseVars, toolVars, timerVars, shareVars, msmVars, raceVars, effectVars>>

\* Time passes: a file's age crosses the 120 s of _cleanup_temp_files.
Age(f) ==
    /\ f \in tempDir \ aged
    /\ aged' = aged \cup {f}
    /\ UNCHANGED <<tempDir, recorded, sw>>
    /\ UNCHANGED <<detectVars, storeVars, rateVars, applyVars, parseVars, toolVars, timerVars, shareVars, msmVars, raceVars, effectVars>>

CleanNext ==
    \/ \E i \in Images, effect \in Effects : SetWallpaperDecide(Original(i), effect)
    \/ SetWallpaperAggressive
    \/ SetWallpaperRoutine
    \/ SetWallpaperEffect
    \/ SetWallpaperDispatch
    \/ \E f \in CleanFiles : Age(f)

\* The cleanup part at rest, for the specifications of the other parts.
CleanQuiet ==
    /\ tempDir = {}
    /\ aged = {}
    /\ recorded = "none"
    /\ sw = IdleSw

----------------------------------------------------------------------------
(* Auto-change timer: src/src/wallpaper-gui.py, WallpaperTimer lines       *)
(* 2079-2117, on_timer_toggled, on_interval_changed, and                   *)
(* set_wallpaper_with_effect as the idle callback. start, stop, _on_timer  *)
(* and the idle callback all run on the GTK main thread, one at a time.    *)

\* interval_options of on_interval_changed, the first three
Intervals == {300, 600, 900}

\* applies the timer hands out in one behaviour
MaxTicks == 3

NoTimerId == 0

\* WallpaperTimer.__init__
NewTimer == [timer_id |-> NoTimerId, running |-> FALSE, interval |-> 300]

\* A stop that forgets the source id and leaves everything else.
StopForgetsSource(t, src) ==
    [timer |-> [t EXCEPT !.timer_id = NoTimerId], source |-> src]

\* WallpaperTimer.stop: the source is removed when there is an id
Stop(t, src) ==
    [timer |-> [t EXCEPT !.timer_id = NoTimerId, !.running = FALSE],
     source |-> IF t.timer_id # NoTimerId THEN "none" ELSE src]

\* A start that adds its source without stopping first.
StartWithoutStop(t, src, interval_seconds) ==
    [timer |-> [t EXCEPT !.interval = interval_seconds,
                         !.running = TRUE, !.timer_id = 1],
     source |-> "armed",
     orphaned |-> src = "armed"]

\* WallpaperTimer.start: stop(), then a new timeout source. A source that
\* stop() left armed is armed still, and timer_id no longer names it.
Start(t, src, interval_seconds) ==
    [timer |-> [Stop(t, src).timer EXCEPT !.interval = interval_seconds,
                                          !.running = TRUE, !.timer_id = 1],
     source |-> "armed",
     orphaned |-> Stop(t, src).source = "armed"]

TimerInit ==
    /\ timer = NewTimer
    /\ autoInterval = 300
    /\ source = "none"
    /\ idle = 0
    /\ threads = 0
    /\ dispatched = 0
    /\ completed = 0
    /\ lastAsked = "never"
    /\ leaked = FALSE

\* on_timer_toggled(switch, state): the interval is the stored setting
OnTimerToggled(state) ==
    /\ LET after == IF state THEN Start(timer, source, autoInterval)
                    ELSE Stop(timer, source)
       IN /\ timer' = after.timer
          /\ source' = after.source
    /\ lastAsked' = IF state THEN "start" ELSE "stop"
    /\ leaked' = IF state THEN (leaked \/ Start(timer, source, autoInterval).orphaned)
                  ELSE leaked
    /\ UNCHANGED <<autoInterval, idle, threads, dispatched, completed>>
    /\ UNCHANGED <<detectVars, storeVars, rateVars, applyVars, parseVars, toolVars, cleanVars, shareVars, msmVars, raceVars, effectVars>>

\* on_interval_changed: the setting is stored and the timer is restarted
\* if it is running
OnIntervalChanged(interval) ==
    /\ autoInterval' = interval
    /\ LET after == IF timer.running THEN Start(timer, source, interval)
                    ELSE [timer |-> timer, source |-> source]
       IN /\ timer' = after.timer
          /\ source' = after.source
    /\ lastAsked' = IF timer.running THEN "start" ELSE lastAsked
    /\ leaked' = IF timer.running THEN (leaked \/ Start(timer, source, interval).orphaned)
                  ELSE leaked
    /\ UNCHANGED <<idle, threads, dispatched, completed>>
    /\ UNCHANGED <<detectVars, storeVars, rateVars, applyVars, parseVars, toolVars, cleanVars, shareVars, msmVars, raceVars, effectVars>>

\* GLib fires the timeout source: _on_timer. Its return value keeps the
\* source (True) or removes it (False).
OnTimer(has_wallpapers) ==
    /\ source = "armed" \/ leaked
    /\ IF ~timer.running
       THEN /\ \/ source = "armed" /\ source' = "none" /\ UNCHANGED leaked
               \/ leaked /\ leaked' \in BOOLEAN /\ UNCHANGED source
            /\ UNCHANGED <<idle, dispatched>>
       ELSE /\ UNCHANGED <<source, leaked>>
            /\ IF has_wallpapers
               THEN /\ dispatched < MaxTicks
                    /\ idle' = idle + 1
                    /\ dispatched' = dispatched + 1
               ELSE UNCHANGED <<idle, dispatched>>
    /\ UNCHANGED <<timer, autoInterval, threads, completed, lastAsked>>
    /\ UNCHANGED <<detectVars, storeVars, rateVars, applyVars, parseVars, toolVars, cleanVars, shareVars, msmVars, raceVars, effectVars>>

\* The main loop runs a queued set_wallpaper_with_effect: it starts the
\* set_in_background thread and returns None, so it runs once.
SetWallpaperWithEffect ==
    /\ idle > 0
    /\ idle' = idle - 1
    /\ threads' = threads + 1
    /\ UNCHANGED <<timer, autoInterval, source, dispatched, completed, lastAsked, leaked>>
    /\ UNCHANGED <<detectVars, storeVars, rateVars, applyVars, parseVars, toolVars, cleanVars, shareVars, msmVars, raceVars, effectVars>>

\* set_in_background: wallpaper_setter.set_wallpaper returns (it catches
\* what it raises) and the thread ends.
SetInBackground ==
    /\ threads > 0
    /\ threads' = threads - 1
    /\ completed' = completed + 1
    /\ UNCHANGED <<timer, autoInterval, source, idle, dispatched, lastAsked, leaked>>
    /\ UNCHANGED <<detectVars, storeVars, rateVars, applyVars, parseVars, toolVars, cleanVars, shareVars, msmVars, raceVars, effectVars>>

TimerNext ==
    \/ \E state \in BOOLEAN : OnTimerToggled(state)
    \/ \E interval \in Intervals : OnIntervalChanged(interval)
    \/ \E has_wallpapers \in BOOLEAN : OnTimer(has_wallpapers)
    \/ SetWallpaperWithEffect
    \/ SetInBackground

\* The timer part at rest, for the specifications of the other parts.
TimerQuiet ==
    /\ timer = NewTimer
    /\ autoInterval = 300
    /\ source = "none"
    /\ idle = 0
    /\ threads = 0
    /\ dispatched = 0
    /\ completed = 0
    /\ lastAsked = "never"
    /\ leaked = FALSE

----------------------------------------------------------------------------
(* Two MonitorStateManager processes and one state file:                   *)
(* wall-it-monitor-state.py, _save_state lines 66-78. Both processes build *)
(* the same temp name, state_file.with_suffix('.tmp'). Names are directory *)
(* entries for inodes; an open file keeps its inode whatever happens to    *)
(* the name.                                                               *)

NoInode == "none"

\* The inode the file had at the start and the one each process creates
\* when its open() finds no temp file.
InodeIds == {"init", "p1", "p2"}

InodeOf(p) == IF p = 1 THEN "p1" ELSE "p2"

\* bytes of a hole left by a write past the end of a truncated file
Hole == <<"\\0", "">>

\* f.write at the descriptor's own offset
WriteAt(content, offset, tok) ==
    LET padded == IF Len(content) < offset
                  THEN content \o [i \in 1..(offset - Len(content)) |-> Hole]
                  ELSE content
        n == IF Len(padded) > offset + 1 THEN Len(padded) ELSE offset + 1
    IN [i \in 1..n |-> IF i = offset + 1 THEN tok ELSE padded[i]]

\* what a reader of the state file finds
RealFile ==
    IF dirent.real = NoInode THEN AbsentFile
    ELSE [exists |-> TRUE, data |-> inode[dirent.real]]

IdleWriter(doc) ==
    [pc |-> "idle", state |-> doc, fd |-> NoInode, offset |-> 0,
     todo |-> <<>>, result |-> "none"]

\* Both processes have built their MonitorStateManager from the same file.
ShareInit ==
    \E d \in {EmptyDoc, <<<<"DP-1", "a.png">>>>} :
    \E there \in BOOLEAN :
        /\ (d # EmptyDoc) => there
        /\ dirent = [real |-> IF there THEN "init" ELSE NoInode, tmp |-> NoInode]
        /\ inode = [i \in InodeIds |-> IF i = "init" /\ there THEN Serialize(d) ELSE <<>>]
        /\ writer = [p \in Procs |-> IdleWriter(d)]
        /\ finishOrder = <<>>

\* set_current_wallpaper: the entry is set in memory, _save_state is entered
ShareSet(p, m, path) ==
    /\ writer[p].pc = "idle"
    /\ writer' = [writer EXCEPT ![p].state = SetEntry(@, m, path),
                                ![p].pc = "opening"]
    /\ UNCHANGED <<dirent, inode, finishOrder>>
    /\ UNCHANGED <<detectVars, storeVars, rateVars, applyVars, parseVars, toolVars, cleanVars, timerVars, msmVars, raceVars, effectVars>>

\* open(temp_file, 'w'): the file the name has is truncated, or a new one
\* is created
ShareOpen(p) ==
    /\ writer[p].pc = "opening"
    /\ LET target == IF dirent[SaveTarget] = NoInode THEN InodeOf(p)
                     ELSE dirent[SaveTarget]
       IN /\ dirent' = [dirent EXCEPT ![SaveTarget] = target]
          /\ inode' = [inode EXCEPT ![target] = <<>>]
          /\ writer' = [writer EXCEPT ![p].pc = "writing", ![p].fd = target,
                                      ![p].offset = 0,
                                      ![p].todo = Serialize(writer[p].state)]
    /\ UNCHANGED finishOrder
    /\ UNCHANGED <<detectVars, storeVars, rateVars, applyVars, parseVars, toolVars, cleanVars, timerVars, msmVars, raceVars, effectVars>>

\* json.dump(self.state, f): the next piece goes to the open file
ShareWrite(p) ==
    /\ writer[p].pc = "writing"
    /\ writer[p].todo # <<>>
    /\ inode' = [inode EXCEPT ![writer[p].fd] =
                     WriteAt(@, writer[p].offset, Head(writer[p].todo))]
    /\ writer' = [writer EXCEPT ![p].todo = Tail(@), ![p].offset = @ + 1]
    /\ UNCHANGED <<dirent, finishOrder>>
    /\ UNCHANGED <<detectVars, storeVars, rateVars, applyVars, parseVars, toolVars, cleanVars, timerVars, msmVars, raceVars, effectVars>>

\* temp_file.replace(self.state_file) after the with block has closed the
\* file; with no temp name left it raises FileNotFoundError and _save_state
\* returns False
ShareReplace(p) ==
    /\ writer[p].pc = "writing"
    /\ writer[p].todo = <<>>
    /\ IF dirent.tmp = NoInode \/ SaveTarget # "tmp"
       THEN /\ UNCHANGED dirent
            /\ writer' = [writer EXCEPT ![p].pc = "done", ![p].fd = NoInode,
                              ![p].result = IF SaveTarget = "tmp" THEN "False"
                                            ELSE "True"]
       ELSE /\ dirent' = [real |-> dirent.tmp, tmp |-> NoInode]
            /\ writer' = [writer EXCEPT ![p].pc = "done", ![p].fd = NoInode,
                                        ![p].result = "True"]
    /\ finishOrder' = Append(finishOrder, p)
    /\ UNCHANGED inode
    /\ UNCHANGED <<detectVars, storeVars, rateVars, applyVars, parseVars, toolVars, cleanVars, timerVars, msmVars, raceVars, effectVars>>

ShareNext ==
    \/ \E p \in Procs, m \in Connectors, path \in StorePaths : ShareSet(p, m, path)
    \/ \E p \in Procs : ShareOpen(p)
    \/ \E p \in Procs : ShareWrite(p)
    \/ \E p \in Procs : ShareReplace(p)

\* The two-process part at rest, for the specifications of the other parts.
ShareQuiet ==
    /\ dirent = [real |-> NoInode, tmp |-> NoInode]
    /\ inode = [i \in InodeIds |-> <<>>]
    /\ writer = [p \in Procs |-> IdleWriter(EmptyDoc)]
    /\ finishOrder = <<>>

----------------------------------------------------------------------------
(* One MonitorStateManager: wall-it-monitor-state.py, _load_state lines    *)
(* 48-64, get_current_wallpaper / set_current_wallpaper lines 96-112 and   *)
(* the navigation of lines 114-142. The state file is seen as the JSON     *)
(* value it holds, so that documents of the wrong shape can be told from   *)
(* text that is not JSON at all.                                           *)

\* image file names, in sorted() order; one that is not in the wallpaper
\* directory is a path to a file that does not exist
NavOrder == <<"a.png", "b.png", "c.png">>

NavNames == {NavOrder[i] : i \in DOMAIN NavOrder}

NoEntries == [c \in Connectors |-> ""]

\* kind: no file, a file open() refuses, text json.load rejects, or JSON;
\* for JSON, shape is the top-level value, and for an object whether it has
\* the key "monitors" and whether that value is a mapping
StateFile(kind, shape, hasMonitors, isMapping, entries) ==
    [kind |-> kind, shape |-> shape, hasMonitors |-> hasMonitors,
     isMapping |-> isMapping, entries |-> entries]

NoStateFile == StateFile("absent", "none", FALSE, FALSE, NoEntries)

StoredDocument(entries) == StateFile("json", "object", TRUE, TRUE, entries)

StateFiles ==
    {NoStateFile,
     StateFile("unreadable", "none", FALSE, FALSE, NoEntries),
     StateFile("garbage", "none", FALSE, FALSE, NoEntries),
     StateFile("json", "null", FALSE, FALSE, NoEntries),
     StateFile("json", "list", FALSE, FALSE, NoEntries),
     StateFile("json", "object", FALSE, FALSE, NoEntries),
     StateFile("json", "object", TRUE, FALSE, NoEntries)}
    \cup {StoredDocument(e) : e \in [Connectors -> {"", "a.png", "c.png"}]}

\* self.state: whether state["monitors"] is a mapping, and its entries
ManagerState(isMapping, entries) == [isMapping |-> isMapping, entries |-> entries]

EmptyState == ManagerState(TRUE, NoEntries)

\* A load that takes whatever json.load returns as the state.
LoadStateUnchecked(f) ==
    IF f.kind = "json"
    THEN ManagerState(f.shape = "object" /\ f.hasMonitors /\ f.isMapping, f.entries)
    ELSE EmptyState

\* _load_state: the document when the file holds an object with the key
\* "monitors", the empty store in every other case
LoadStateFile(f) ==
    IF f.kind = "json" /\ f.shape = "object" /\ f.hasMonitors
    THEN ManagerState(f.isMapping, f.entries)
    ELSE EmptyState

Reply(op, monitor, raised, value) ==
    [op |-> op, monitor |-> monitor, raised |-> raised, value |-> value]

NoReply == Reply("none", "", FALSE, "")

\* get_current_wallpaper: the recorded path when there is one and the file
\* is there, else None; .get on something that is no mapping raises
GetCurrentWallpaper(state, monitor, onDisk) ==
    IF ~state.isMapping THEN Reply("get", monitor, TRUE, "")
    ELSE IF state.entries[monitor] # "" /\ state.entries[monitor] \in onDisk
         THEN Reply("get", monitor, FALSE, state.entries[monitor])
         ELSE Reply("get", monitor, FALSE, "None")

\* get_wallpaper_list: the image files of the wallpaper directory, sorted;
\* a directory that is missing or cannot be listed gives [] like an empty one
GetWallpaperList(dir) == SelectSeq(NavOrder, LAMBDA name : name \in dir)

\* current_index of the navigation: the index of the current wallpaper in
\* the list (counted from 0), or 0 when there is none or it is not listed
CurrentIndex(wallpaper_list, current) ==
    IF current # "None" /\ \E i \in DOMAIN wallpaper_list : wallpaper_list[i] = current
    THEN (CHOOSE i \in DOMAIN wallpaper_list : wallpaper_list[i] = current) - 1
    ELSE 0

\* get_next_wallpaper: None for an empty list, before the state is looked at
GetNextWallpaper(state, monitor, dir) ==
    LET wallpaper_list == GetWallpaperList(dir)
        current == GetCurrentWallpaper(state, monitor, dir)
    IN IF wallpaper_list = <<>> THEN Reply("next", monitor, FALSE, "None")
       ELSE IF current.raised THEN Reply("next", monitor, TRUE, "")
       ELSE Reply("next", monitor, FALSE,
                  wallpaper_list[((CurrentIndex(wallpaper_list, current.value) + 1)
                              % Len(wallpaper_list)) + 1])

\* A previous that stops at the first wallpaper.
GetPrevWallpaperNoWrap(state, monitor, dir) ==
    LET wallpaper_list == GetWallpaperList(dir)
        current == GetCurrentWallpaper(state, monitor, dir)
        index == CurrentIndex(wallpaper_list, current.value)
    IN IF wallpaper_list = <<>> THEN Reply("prev", monitor, FALSE, "None")
       ELSE IF current.raised THEN Reply("prev", monitor, TRUE, "")
       ELSE Reply("prev", monitor, FALSE,
                  wallpaper_list[(IF index = 0 THEN 0 ELSE index - 1) + 1])

\* get_prev_wallpaper
GetPrevWallpaper(state, monitor, dir) ==
    LET wallpaper_list == GetWallpaperList(dir)
        current == GetCurrentWallpaper(state, monitor, dir)
    IN IF wallpaper_list = <<>> THEN Reply("prev", monitor, FALSE, "None")
       ELSE IF current.raised THEN Reply("prev", monitor, TRUE, "")
       ELSE Reply("prev", monitor, FALSE,
                  wallpaper_list[((CurrentIndex(wallpaper_list, current.value) - 1)
                              % Len(wallpaper_list)) + 1])

\* the round trip being followed: the monitor, its wallpaper before, the
\* answer of get_next_wallpaper, and how far the trip has come
Trip(monitor, from, via, stage) ==
    [monitor |-> monitor, from |-> from, via |-> via, stage |-> stage]

NoTrip == Trip("", "", "", "none")

NewManager == [built |-> FALSE, state |-> EmptyState, loaded |-> NoStateFile,
               fresh |-> FALSE]

MsmInit ==
    /\ stateFile \in StateFiles
    /\ wallpaperDir \in SUBSET {"a.png", "b.png"}
    /\ msm = NewManager
    /\ reply = NoReply
    /\ trip = NoTrip

\* The same manager started on a well-formed state file, with any set of
\* the image files in the wallpaper directory.
NavInit ==
    /\ stateFile \in {NoStateFile,
                      StoredDocument([c \in Connectors |-> "c.png"]),
                      StoredDocument([NoEntries EXCEPT !["DP-1"] = "a.png"])}
    /\ wallpaperDir \in SUBSET NavNames
    /\ msm = NewManager
    /\ reply = NoReply
    /\ trip = NoTrip

\* MonitorStateManager.__init__: self.state = self._load_state()
BuildManager ==
    /\ msm' = [built |-> TRUE, state |-> LoadStateFile(stateFile),
               loaded |-> [stateFile EXCEPT !.entries = NoEntries], fresh |-> TRUE]
    /\ reply' = Reply("load", "", FALSE, "")
    /\ trip' = NoTrip
    /\ UNCHANGED <<stateFile, wallpaperDir>>
    /\ UNCHANGED <<detectVars, storeVars, rateVars, applyVars, parseVars, toolVars, cleanVars, timerVars, shareVars, raceVars, effectVars>>

\* get_current_wallpaper(monitor)
AskCurrent(monitor) ==
    /\ msm.built
    /\ reply' = GetCurrentWallpaper(msm.state, monitor, wallpaperDir)
    /\ trip' = NoTrip
    /\ UNCHANGED <<stateFile, wallpaperDir, msm>>
    /\ UNCHANGED <<detectVars, storeVars, rateVars, applyVars, parseVars, toolVars, cleanVars, timerVars, shareVars, raceVars, effectVars>>

\* set_current_wallpaper(monitor, path): the entry is set and the state
\* saved; `monitor not in` / item assignment on something that is no
\* mapping raises; a save that fails returns False and leaves the file
SetCurrent(monitor, path, saved) ==
    /\ msm.built
    /\ IF ~msm.state.isMapping
       THEN /\ reply' = Reply("set", monitor, TRUE, "")
            /\ UNCHANGED <<msm, stateFile>>
       ELSE LET entries == [msm.state.entries EXCEPT ![monitor] = path]
            IN /\ msm' = [msm EXCEPT !.state = ManagerState(TRUE, entries),
                                     !.fresh = FALSE]
               /\ stateFile' = IF saved THEN StoredDocument(entries) ELSE stateFile
               /\ reply' = Reply("set", monitor, FALSE,
                                 IF saved THEN "True" ELSE "False")
    /\ trip' = IF /\ msm.state.isMapping
                  /\ trip.stage = "asked"
                  /\ trip.monitor = monitor
                  /\ trip.via = path
               THEN [trip EXCEPT !.stage = "set"]
               ELSE NoTrip
    /\ UNCHANGED wallpaperDir
    /\ UNCHANGED <<detectVars, storeVars, rateVars, applyVars, parseVars, toolVars, cleanVars, timerVars, shareVars, raceVars, effectVars>>

\* get_next_wallpaper(monitor)
AskNext(monitor) ==
    /\ msm.built
    /\ reply' = GetNextWallpaper(msm.state, monitor, wallpaperDir)
    /\ trip' = IF ~reply'.raised /\ reply'.value # "None"
               THEN Trip(monitor,
                         GetCurrentWallpaper(msm.state, monitor, wallpaperDir).value,
                         reply'.value, "asked")
               ELSE NoTrip
    /\ UNCHANGED <<stateFile, wallpaperDir, msm>>
    /\ UNCHANGED <<detectVars, storeVars, rateVars, applyVars, parseVars, toolVars, cleanVars, timerVars, shareVars, raceVars, effectVars>>

\* get_prev_wallpaper(monitor)
AskPrev(monitor) ==
    /\ msm.built
    /\ reply' = GetPrevWallpaper(msm.state, monitor, wallpaperDir)
    /\ trip' = IF trip.stage = "set" /\ trip.monitor = monitor
               THEN [trip EXCEPT !.stage = "back"]
               ELSE NoTrip
    /\ UNCHANGED <<stateFile, wallpaperDir, msm>>
    /\ UNCHANGED <<detectVars, storeVars, rateVars, applyVars, parseVars, toolVars, cleanVars, timerVars, shareVars, raceVars, effectVars>>

MsmNext ==
    \/ BuildManager
    \/ \E monitor \in Connectors : AskCurrent(monitor)
    \/ \E monitor \in Connectors, path \in NavNames, saved \in BOOLEAN :
           SetCurrent(monitor, path, saved)
    \/ \E monitor \in Connectors : AskNext(monitor)
    \/ \E monitor \in Connectors : AskPrev(monitor)

\* The manager part at rest, for the specifications of the other parts.
MsmQuiet ==
    /\ stateFile = NoStateFile
    /\ wallpaperDir = {}
    /\ msm = NewManager
    /\ reply = NoReply
    /\ trip = NoTrip

----------------------------------------------------------------------------
(* Two set_in_background threads of the GUI, each past a successful        *)
(* dispatch to its own connector, in set_monitor_wallpaper                 *)
(* (src/src/wallpaper-gui.py lines 2588-2605). The method takes no lock;   *)
(* write_text opens the file for writing, which empties it, and then       *)
(* writes.                                                                 *)

\* the connector each thread's apply is for
TargetOf(t) == IF t = 1 THEN "DP-1" ELSE "HDMI-A-1"

TrackFile(whole, doc) == [whole |-> whole, doc |-> doc]

\* get_monitor_wallpapers: the document, or {} when json.loads raises on a
\* file that is being rewritten
GetMonitorWallpapers(f) == IF f.whole THEN f.doc ELSE NoWallpapers

IdleTracker == [pc |-> "idle", path |-> NoPath, copy |-> NoWallpapers]

RaceInit ==
    /\ \E doc \in {NoWallpapers, [c \in Connectors |-> Original("b.png")],
                   [NoWallpapers EXCEPT !["HDMI-A-1"] = Original("b.png")]} :
           trackFile = TrackFile(TRUE, doc)
    /\ tracker = [t \in Threads |-> IdleTracker]

\* the thread's dispatch has succeeded and it enters set_monitor_wallpaper
TrackEnter(t, image) ==
    /\ tracker[t].pc = "idle"
    /\ tracker' = [tracker EXCEPT ![t] = [pc |-> "entered", path |-> Original(image),
                                          copy |-> NoWallpapers]]
    /\ UNCHANGED trackFile
    /\ UNCHANGED <<detectVars, storeVars, rateVars, applyVars, parseVars, toolVars, cleanVars, timerVars, shareVars, msmVars, effectVars>>

\* monitor_wallpapers = self.get_monitor_wallpapers()
\* monitor_wallpapers[monitor] = str(wallpaper_path)
TrackRead(t) ==
    /\ tracker[t].pc = "entered"
    /\ tracker' = [tracker EXCEPT
                       ![t].pc = "read",
                       ![t].copy = SetMonitorWallpaper(GetMonitorWallpapers(trackFile),
                                                       TargetOf(t), tracker[t].path, "ok")]
    /\ UNCHANGED trackFile
    /\ UNCHANGED <<detectVars, storeVars, rateVars, applyVars, parseVars, toolVars, cleanVars, timerVars, shareVars, msmVars, effectVars>>

\* write_text, the open
TrackOpen(t) ==
    /\ tracker[t].pc = "read"
    /\ tracker' = [tracker EXCEPT ![t].pc = "opened"]
    /\ trackFile' = TrackFile(FALSE, NoWallpapers)
    /\ UNCHANGED <<detectVars, storeVars, rateVars, applyVars, parseVars, toolVars, cleanVars, timerVars, shareVars, msmVars, effectVars>>

\* write_text, the write and the close
TrackWrite(t) ==
    /\ tracker[t].pc = "opened"
    /\ tracker' = [tracker EXCEPT ![t].pc = "done"]
    /\ trackFile' = TrackFile(TRUE, tracker[t].copy)
    /\ UNCHANGED <<detectVars, storeVars, rateVars, applyVars, parseVars, toolVars, cleanVars, timerVars, shareVars, msmVars, effectVars>>

\* the thread ends; a later apply starts another
TrackLeave(t) ==
    /\ tracker[t].pc = "done"
    /\ tracker[3 - t].pc \in {"idle", "done"}
    /\ tracker' = [tracker EXCEPT ![t] = IdleTracker]
    /\ UNCHANGED trackFile
    /\ UNCHANGED <<detectVars, storeVars, rateVars, applyVars, parseVars, toolVars, cleanVars, timerVars, shareVars, msmVars, effectVars>>

RaceNext ==
    \/ \E t \in Threads, image \in Images : TrackEnter(t, image)
    \/ \E t \in Threads : TrackRead(t)
    \/ \E t \in Threads : TrackOpen(t)
    \/ \E t \in Threads : TrackWrite(t)
    \/ \E t \in Threads : TrackLeave(t)

\* The two-thread part at rest, for the specifications of the other parts.
RaceQuiet ==
    /\ trackFile = TrackFile(TRUE, NoWallpapers)
    /\ tracker = [t \in Threads |-> IdleTracker]

----------------------------------------------------------------------------
(* The current-effect marker: src/src/wallpaper-gui.py, get_current_effect *)
(* and set_current_effect lines 2381-2418, and wall-it-common.py,          *)
(* read_cache_file lines 24-37. A text is the sequence of its fields       *)
(* between '|' characters, as str.split('|') returns them: a text without  *)
(* '|' is one field. A file may end in white space, which strip() removes. *)

\* effect names, the last one with a '|' in it
EffectNames == {<<"none">>, <<"blur">>, <<"sepia">>, <<"bl", "ur">>}

\* what the marker is found holding: plain, legacy "scale|effect", more
\* fields than two, no scale, nothing
MarkerTexts ==
    {<<"none">>, <<"blur">>, <<"1.5", "none">>, <<"2", "blur">>,
     <<"2", "blur", "x">>, <<"", "blur">>, <<"">>}

Marker(exists, padded, fields) ==
    [exists |-> exists, padded |-> padded, fields |-> fields]

NoMarker == Marker(FALSE, FALSE, <<>>)

\* "|".join: f"{monitor_scale}|{effect}"
Joined(head, effect) == <<head>> \o effect

\* '|' in content
HasBar(fields) == Len(fields) >= 2

\* get_current_effect: the second field of a text with '|', else the text;
\* 'none' when there is no file or the read raises. strip() drops the
\* padding, and the fields are those of the stripped text.
GetCurrentEffect(file, readable) ==
    IF file.exists /\ readable
    THEN IF HasBar(file.fields) /\ Len(file.fields) >= 2
         THEN <<file.fields[2]>>
         ELSE file.fields
    ELSE <<"none">>

\* read_cache_file(EFFECT_FILE, default)
read_cache_file(file, readable, default) ==
    IF file.exists /\ readable
    THEN IF HasBar(file.fields) /\ Len(file.fields) >= 2
         THEN <<file.fields[2]>>
         ELSE file.fields
    ELSE default

\* A set that writes the effect alone.
NewContentPlain(file, effect) == effect

\* set_current_effect, new_content: the first field of the old text is kept
\* when the old text is not empty and has a '|'
NewContent(file, effect) ==
    IF file.exists /\ file.fields # <<"">> /\ HasBar(file.fields)
    THEN IF Len(file.fields) >= 2
         THEN Joined(file.fields[1], effect)
         ELSE effect
    ELSE effect

EffectCall(op, by, effect, before, result) ==
    [op |-> op, by |-> by, effect |-> effect, before |-> before, result |-> result]

NoEffectCall == EffectCall("none", "", <<>>, NoMarker, <<>>)

EffectInit ==
    /\ marker \in {NoMarker} \cup {Marker(TRUE, padded, text) :
                                      padded \in BOOLEAN, text \in MarkerTexts}
    /\ effectCall = NoEffectCall

\* set_current_effect(effect); a read or write that raises is printed and
\* nothing is written
SetCurrentEffect(effect, raises) ==
    /\ IF raises
       THEN /\ effectCall' = EffectCall("failed", "gui", effect, marker, <<>>)
            /\ UNCHANGED marker
       ELSE /\ marker' = Marker(TRUE, FALSE, NewContent(marker, effect))
            /\ effectCall' = EffectCall("set", "gui", effect, marker, <<>>)
    /\ UNCHANGED <<detectVars, storeVars, rateVars, applyVars, parseVars, toolVars, cleanVars, timerVars, shareVars, msmVars, raceVars>>

\* WallpaperSetter.get_current_effect()
AskCurrentEffect(readable) ==
    /\ effectCall' = EffectCall(IF effectCall.op = "set" /\ readable THEN "got" ELSE "asked",
                                "gui", effectCall.effect, effectCall.before,
                                GetCurrentEffect(marker, readable))
    /\ UNCHANGED marker
    /\ UNCHANGED <<detectVars, storeVars, rateVars, applyVars, parseVars, toolVars, cleanVars, timerVars, shareVars, msmVars, raceVars>>

\* wall-it-common get_current_effect(): read_cache_file with DEFAULT_EFFECT
AskCommonEffect(readable) ==
    /\ effectCall' = EffectCall(IF effectCall.op = "set" /\ readable THEN "got" ELSE "asked",
                                "common", effectCall.effect, effectCall.before,
                                read_cache_file(marker, readable, <<"none">>))
    /\ UNCHANGED marker
    /\ UNCHANGED <<detectVars, storeVars, rateVars, applyVars, parseVars, toolVars, cleanVars, timerVars, shareVars, msmVars, raceVars>>

EffectNext ==
    \/ \E effect \in EffectNames, raises \in BOOLEAN : SetCurrentEffect(effect, raises)
    \/ \E readable \in BOOLEAN : AskCurrentEffect(readable)
    \/ \E readable \in BOOLEAN : AskCommonEffect(readable)

\* The marker part at rest, for the specifications of the other parts.
EffectQuiet ==
    /\ marker = NoMarker
    /\ effectCall = NoEffectCall

----------------------------------------------------------------------------
(* Specifications                                                          *)

InitDetect == DetectInit /\ StoreQuiet /\ RateInit /\ ApplyQuiet /\ ParseQuiet /\ ToolsQuiet /\ CleanQuiet /\ TimerQuiet /\ ShareQuiet /\ MsmQuiet /\ RaceQuiet /\ EffectQuiet

SpecDetect == InitDetect /\ [][DetectNext]_vars

InitStore == StoreInit /\ DetectQuiet /\ RateInit /\ ApplyQuiet /\ ParseQuiet /\ ToolsQuiet /\ CleanQuiet /\ TimerQuiet /\ ShareQuiet /\ MsmQuiet /\ RaceQuiet /\ EffectQuiet

SpecStore == InitStore /\ [][StoreNext]_vars

InitRate == RateInit /\ DetectQuiet /\ StoreQuiet /\ ApplyQuiet /\ ParseQuiet /\ ToolsQuiet /\ CleanQuiet /\ TimerQuiet /\ ShareQuiet /\ MsmQuiet /\ RaceQuiet /\ EffectQuiet

SpecRate == InitRate /\ [][RateNext]_vars

Init == ApplyInit /\ DetectQuiet /\ StoreQuiet /\ RateInit /\ ParseQuiet /\ ToolsQuiet /\ CleanQuiet /\ TimerQuiet /\ ShareQuiet /\ MsmQuiet /\ RaceQuiet /\ EffectQuiet

Spec == Init /\ [][Next]_vars

InitParse == ParseInit /\ DetectQuiet /\ StoreQuiet /\ RateInit /\ ApplyQuiet /\ ToolsQuiet /\ CleanQuiet /\ TimerQuiet /\ ShareQuiet /\ MsmQuiet /\ RaceQuiet /\ EffectQuiet

SpecParse == InitParse /\ [][ParseNext]_vars

InitTools == ToolsInit /\ DetectQuiet /\ StoreQuiet /\ RateInit /\ ApplyQuiet /\ ParseQuiet /\ CleanQuiet /\ TimerQuiet /\ ShareQuiet /\ MsmQuiet /\ RaceQuiet /\ EffectQuiet

SpecTools == InitTools /\ [][ToolsNext]_vars

InitClean == CleanInit /\ DetectQuiet /\ StoreQuiet /\ RateInit /\ ApplyQuiet /\ ParseQuiet /\ ToolsQuiet /\ TimerQuiet /\ ShareQuiet /\ MsmQuiet /\ RaceQuiet /\ EffectQuiet

SpecClean == InitClean /\ [][CleanNext]_vars

InitTimer == TimerInit /\ DetectQuiet /\ StoreQuiet /\ RateInit /\ ApplyQuiet /\ ParseQuiet /\ ToolsQuiet /\ CleanQuiet /\ ShareQuiet /\ MsmQuiet /\ RaceQuiet /\ EffectQuiet

\* The main loop gets to its idle callbacks and a started thread runs on.
SpecTimer ==
    /\ InitTimer
    /\ [][TimerNext]_vars
    /\ WF_vars(SetWallpaperWithEffect)
    /\ WF_vars(SetInBackground)

InitShare == ShareInit /\ DetectQuiet /\ StoreQuiet /\ RateInit /\ ApplyQuiet /\ ParseQuiet /\ ToolsQuiet /\ CleanQuiet /\ TimerQuiet /\ MsmQuiet /\ RaceQuiet /\ EffectQuiet

SpecShare == InitShare /\ [][ShareNext]_vars

InitMsm == MsmInit /\ DetectQuiet /\ StoreQuiet /\ RateInit /\ ApplyQuiet /\ ParseQuiet /\ ToolsQuiet /\ CleanQuiet /\ TimerQuiet /\ ShareQuiet /\ RaceQuiet /\ EffectQuiet

SpecMsm == InitMsm /\ [][MsmNext]_vars

InitNav == NavInit /\ DetectQuiet /\ StoreQuiet /\ RateInit /\ ApplyQuiet /\ ParseQuiet /\ ToolsQuiet /\ CleanQuiet /\ TimerQuiet /\ ShareQuiet /\ RaceQuiet /\ EffectQuiet

SpecNav == InitNav /\ [][MsmNext]_vars

InitRace == RaceInit /\ DetectQuiet /\ StoreQuiet /\ RateInit /\ ApplyQuiet /\ ParseQuiet /\ ToolsQuiet /\ CleanQuiet /\ TimerQuiet /\ ShareQuiet /\ MsmQuiet /\ EffectQuiet

SpecRace == InitRace /\ [][RaceNext]_vars

InitEffect == EffectInit /\ DetectQuiet /\ StoreQuiet /\ RateInit /\ ApplyQuiet /\ ParseQuiet /\ ToolsQuiet /\ CleanQuiet /\ TimerQuiet /\ ShareQuiet /\ MsmQuiet /\ RaceQuiet

SpecEffect == InitEffect /\ [][EffectNext]_vars

----------------------------------------------------------------------------
(* Claims                                                                  *)

LogNames == [i \in 1..Len(probeLog) |-> probeLog[i].name]

\* C10: detection tries the candidates in registration order, the active
\* backend is the first one whose construction and is_available() succeed,
\* nothing after the accepted candidate is instantiated or probed, and no
\* accepted candidate is passed over for a later one.
C10_FirstAvailableWins ==
    mgr = "constructed" =>
        /\ Len(probeLog) <= Len(backends)
        /\ LogNames = SubSeq(backends, 1, Len(probeLog))
        /\ \A i \in 1..Len(probeLog) :
               /\ probeLog[i].ctor = detectEnv.ctor[probeLog[i].name]
               /\ probeLog[i].ctor = "ok" =>
                      probeLog[i].probe = detectEnv.probe[probeLog[i].name]
               /\ i < Len(probeLog) => ~Accepted(probeLog[i])
        /\ active # NoBackend =>
               /\ probeLog # <<>>
               /\ Accepted(probeLog[Len(probeLog)])
               /\ active = probeLog[Len(probeLog)].name
        /\ active = NoBackend =>
               /\ Len(probeLog) = Len(backends)
               /\ \A i \in 1..Len(probeLog) : ~Accepted(probeLog[i])

\* A detection that accepted the first of two registered candidates while the
\* second one was available too, and so never tried the second.
C10_Witness ==
    /\ mgr = "constructed"
    /\ Len(backends) = 2
    /\ active = backends[1]
    /\ Len(probeLog) = 1
    /\ detectEnv.ctor[backends[2]] = "ok"
    /\ detectEnv.probe[backends[2]] = "true"

\* C4: a set that returned True is on disk (a restart reloads the same
\* connector -> path mapping), and whatever happens during a write (a crash
\* before, during or after the temp file is written, a failed write) the
\* real path holds a whole document, the one from before the set or the new
\* one, never a partial one and never an emptied store.
C4_AtomicRoundTrip ==
    /\ files.real.exists => IsCompleteDoc(files.real.data)
    /\ LoadState(files.real) \in {docBefore, docTarget}
    /\ (storePc[1] = "idle" /\ lastSave[1] = "ok") =>
           /\ LoadState(files.real) = memState[1]
           /\ Lookup(LoadState(files.real), lastSet[1][1]) = lastSet[1][2]
    /\ (storePc[1] = "idle" /\ lastSave[1] = "none") =>
           memState[1] = LoadState(files.real)

\* The process crashed after the whole new document was written to the temp
\* file and before the rename, restarted, and reloaded the previous,
\* non-empty document.
C4_Witness ==
    /\ storePc[1] = "idle"
    /\ lastSave[1] = "none"
    /\ files.tmp.exists
    /\ IsCompleteDoc(files.tmp.data)
    /\ LoadState(files.tmp) = docTarget
    /\ docTarget # docBefore
    /\ docBefore # EmptyDoc
    /\ memState[1] = docBefore

\* C5: in a run of calls made one after another, the dispatches of any two
\* consecutive calls are at least one second apart (stated for calls that
\* dispatch the moment they are past the rate limiter, so that the time a
\* call spends on its effect plays no part).
C5_DispatchSpacing ==
    \A t \in Threads :
        (/\ ~overlap
         /\ dispatchAt[t] # NoTime
         /\ dispatchAt[t] = passedAt[t]
         /\ pred[t].dispatch # NoTime
         /\ pred[t].dispatch = pred[t].passed) =>
            dispatchAt[t] - pred[t].dispatch >= RateWindow

\* C6: a call that starts less than a second after the start of the call
\* before it (calls made one after another) does not reach its dispatch
\* before a full second has passed since that earlier start.
C6_SecondCallDelayed ==
    \A t \in Threads :
        (/\ ~overlap
         /\ dispatchAt[t] # NoTime
         /\ pred[t].start # NoTime
         /\ curTime[t] - pred[t].start < RateWindow) =>
            dispatchAt[t] >= pred[t].start + RateWindow

\* A second call started inside the window, slept, and has dispatched.
C6_Witness ==
    \E t \in Threads :
        /\ ~overlap
        /\ dispatchAt[t] # NoTime
        /\ pred[t].start # NoTime
        /\ curTime[t] - pred[t].start < RateWindow
        /\ curTime[t] > pred[t].start
        /\ wakeAt[t] # NoTime

\* C7: no two calls are in the backend-dispatch stage at the same time.
C7_OneDispatchAtATime ==
    Cardinality({t \in Threads : rpc[t] = "dispatch"}) <= 1

\* C1: an apply reports failure only when the backend dispatch failed: once
\* the dispatch has succeeded the call returns True, whatever happens to the
\* pointer update, the per-monitor tracking, the enumeration or the colors.
C1_FailureOnlyFromDispatch ==
    (call.pc = "done" /\ call.success) => call.result = "True"

\* the backend of this call takes transitions: one that supports them, or
\* swww called directly by the GUI when it has no backend
TransitionCapable ==
    \/ SupportsTransitions(call.backend, swwwAvailable)
    \/ (call.entry = "gui" /\ call.backend = NoBackend)

\* C2: a request whose transition is 'none' or 'random', dispatched to a
\* backend that takes transitions, is dispatched with 'fade', on the common
\* path, the GUI's backend-manager path and the GUI's direct swww path.
C2_SanitizedTransition ==
    (/\ call.sent # NoSent
     /\ call.transition \in {"none", "random"}
     /\ TransitionCapable) =>
        call.sent.transition = "fade"

\* wall-it-common dispatched a request for 'random' to a backend that
\* supports transitions, and the dispatch succeeded.
C2_Witness ==
    /\ call.entry = "common"
    /\ call.success
    /\ call.transition = "random"
    /\ SupportsTransitions(call.backend, swwwAvailable)
    /\ call.sent.transition = "fade"

C8_PointerNeverMissing ==
    (call.success /\ call.linkBefore # NoPath) =>
        currentWallpaper \in {call.linkBefore, call.image}

\* C9: after a successful apply to all monitors in which no pointer update,
\* no tracking write and no enumeration failed, every connector of the discovery made during
\* the apply (of the attached connectors, where the apply made none) maps to
\* the applied original image.
C9_AllMonitorsRecorded ==
    (/\ call.pc = "done"
     /\ call.result = "True"
     /\ call.monitor = NoMonitor
     /\ ~call.linkFailed
     /\ call.trackFailed = {}
     /\ ~call.enumFailed) =>
        \A c \in (IF call.enumerated THEN call.attached ELSE connected) :
            monitorWallpapers[c] = call.image

\* C11: a candidate whose constructor or availability probe raises is
\* treated as unavailable (it never becomes the active backend), the
\* candidates registered after it are still tried, and constructing the
\* manager never raises.
C11_RaisingCandidateSkipped ==
    /\ mgr # "raised"
    /\ mgr = "constructed" =>
           \A i \in 1..Len(probeLog) :
               Raised(probeLog[i]) =>
                   /\ active # probeLog[i].name
                   /\ i < Len(backends) => Len(probeLog) > i
                   /\ i = Len(probeLog) => active = NoBackend

\* The first of two candidates raised in its constructor and detection went
\* on to accept the second.
C11_Witness ==
    /\ mgr = "constructed"
    /\ Len(backends) = 2
    /\ Len(probeLog) = 2
    /\ Raised(probeLog[1])
    /\ active = backends[2]


Setters(c) == SelectSeq(c.tools, LAMBDA t : t.tool \in SetterTools)

\* the call went through its dispatch
Dispatched(c) == c.pc \notin {"idle", "prepared"}

StagesInOrder(c) ==
    /\ c.pc \in {"dispatched", "unlinked", "linked", "templinked", "tracked"}
           => c.success /\ Len(Setters(c)) >= 1
    /\ c.pc \in {"linked", "tracked"} => currentWallpaper = c.image
    /\ (c.entry = "gui" /\ c.result = "True") => currentWallpaper = c.image

C15_FailedEffectRecordedNone ==
    (/\ call.entry = "gui"
     /\ call.pc = "done"
     /\ call.success
     /\ call.effect # "none"
     /\ ~IsDerivative(call.processed)) =>
        /\ call.sent.path = call.image
        /\ Len(Setters(call)) >= 1
        /\ currentEffect = "none"

C17_ColorsFromOriginal ==
    IsDerivative(call.processed) =>
        \A i \in 1..Len(call.tools) :
            call.tools[i].tool = "matugen" => call.tools[i].path = call.image


\* a monitor entry that parsed cleanly
CleanEntry(e) == e.object /\ e.name \notin {Absent, Null, ""} /\ e.complete

\* C18 as stated: on every discovery output the parser does not raise,
\* returns no record with a null or empty connector, returns every entry
\* that parsed cleanly and nothing for the malformed ones.
C18_ParsingTotal ==
    parsed.by \in {"NiriBackend", "HyprlandBackend", "MonitorManagerHyprland"} =>
        LET clean == IF discovery.kind = "text"
                     THEN {discovery.lines[i].connector :
                               i \in {j \in 1..Len(discovery.lines) :
                                          output_pattern(discovery.lines[j])}}
                     ELSE {discovery.entries[i].name :
                               i \in {j \in 1..Len(discovery.entries) :
                                          CleanEntry(discovery.entries[j])}}
            returned == {parsed.monitors[k].connector :
                             k \in 1..Len(parsed.monitors)}
        IN  /\ ~parsed.raised
            /\ Null \notin returned /\ "" \notin returned
            /\ clean \subseteq returned
            /\ "Unknown" \notin returned

\* what each of the two block parsers takes for a header, a mode line and
\* a scale line
HeaderOf(by, line) ==
    IF by = "NiriBackend" THEN output_pattern(line) ELSE CopyIsHeader(line)

ModeOf(by, line) ==
    IF by = "NiriBackend" THEN mode_pattern(line)
    ELSE line.kind = "mode" /\ line.refresh # ""

ScaleOf(by, line) ==
    IF by = "NiriBackend" THEN scale_pattern(line) ELSE line.kind = "scale"

\* the positions of the header lines
Headers(by) ==
    {i \in 1..Len(discovery.lines) : HeaderOf(by, discovery.lines[i])}

\* the positions after header h and before the next header
Block(by, h) ==
    {j \in (h + 1)..Len(discovery.lines) :
         \A m \in (h + 1)..j : ~HeaderOf(by, discovery.lines[m])}

LastIn(S) == CHOOSE j \in S : \A m \in S : m <= j

\* Output "Dell" (DP-1), Current mode: 3440x1440 @ 155.000 Hz, Scale: 1.4
\* and a line that matches nothing
OneBlockAndGarbage ==
    << Line("header", "Dell", "DP-1", "", "", ""),
       Line("mode", "", "", "3440x1440", "155.000", ""),
       Line("scale", "", "", "", "", "1.4"),
       Line("other", "", "", "", "", "") >>

\* C19: both copies of NiriBackend.get_monitors return one record per
\* header line, in order; the k-th record has the connector of the k-th
\* header and the resolution and scale of the last mode and scale lines
\* between that header and the next (the defaults when there are none);
\* other lines change nothing; one DP-1 block with 3440x1440 and scale 1.4
\* followed by a garbage line gives exactly that one record.
C19_BlockStateMachine ==
    parsed.by \in {"NiriBackend", "NiriBackendCopy"} =>
        LET by == parsed.by
            hs == Headers(by)
        IN  /\ Len(parsed.monitors) = Cardinality(hs)
            /\ \A h \in hs :
                   LET rec == parsed.monitors[Cardinality({i \in hs : i <= h})]
                       modes == {j \in Block(by, h) :
                                     ModeOf(by, discovery.lines[j])}
                       scales == {j \in Block(by, h) :
                                      ScaleOf(by, discovery.lines[j])}
                   IN  /\ rec.connector =
                              (IF by = "NiriBackend"
                               THEN discovery.lines[h].connector
                               ELSE CopyPart(discovery.lines[h].connector))
                       /\ rec.resolution =
                              (IF modes = {} THEN "Unknown"
                               ELSE discovery.lines[LastIn(modes)].resolution)
                       /\ rec.scale =
                              (IF scales = {} THEN "1.0"
                               ELSE discovery.lines[LastIn(scales)].scale)
            /\ discovery.lines = OneBlockAndGarbage =>
                   parsed.monitors =
                       <<Monitor("Dell", "DP-1", "3440x1440", "1.4", "155.000")>>

\* NiriBackend.get_monitors has parsed the DP-1 block followed by the
\* garbage line into one record.
C19_Witness ==
    /\ parsed.by = "NiriBackend"
    /\ discovery.lines = OneBlockAndGarbage
    /\ Len(parsed.monitors) = 1
    /\ parsed.monitors[1].connector = "DP-1"

\* C20 as stated: for a connector whose header appears more than once, the
\* result has exactly one record, with the scale of its last block, at the
\* position the connector's first header has among the distinct connectors.
C20_DuplicateLastWins ==
    parsed.by \in {"NiriBackend", "MonitorManagerNiri"} =>
        LET hs == {i \in 1..Len(discovery.lines) :
                       output_pattern(discovery.lines[i])}
            all == Headers("NiriBackendCopy")
        IN  \A h \in hs :
                LET c == discovery.lines[h].connector
                    same == {i \in hs : discovery.lines[i].connector = c}
                    first == CHOOSE i \in same : \A m \in same : i <= m
                    recs == {k \in 1..Len(parsed.monitors) :
                                 parsed.monitors[k].connector = c}
                    scales == {j \in Block("NiriBackendCopy", LastIn(same)) :
                                   scale_pattern(discovery.lines[j])}
                IN  /\ Cardinality(recs) = 1
                    /\ \A k \in recs :
                           /\ parsed.monitors[k].scale =
                                  (IF scales = {} THEN "1.0"
                                   ELSE discovery.lines[LastIn(scales)].scale)
                           /\ k = Cardinality(
                                      {discovery.lines[i].connector :
                                           i \in {m \in all : m <= first}})


\* C21 as stated: a monitor whose discovery data has no resolution (a block
\* without a mode line, a JSON object without width and height) is
\* returned with the resolution 'Unknown'.
C21_MissingResolutionUnknown ==
    /\ parsed.by = "NiriBackend" =>
           \A h \in Headers("NiriBackend") :
               {j \in Block("NiriBackend", h) :
                    mode_pattern(discovery.lines[j])} = {} =>
                   parsed.monitors[Cardinality({i \in Headers("NiriBackend") :
                                                    i <= h})].resolution
                       = "Unknown"
    /\ (parsed.by = "HyprlandBackend" /\ ~parsed.raised) =>
           \A i \in 1..Len(parsed.monitors) :
               discovery.entries[i].resolution = "" =>
                   parsed.monitors[i].resolution = "Unknown"


\* what discovery returns to the function that was asked for the active
\* monitor
DiscoveryFor(fn) ==
    IF fn = "NiriBackend.get_active_monitor" THEN NiriMonitors(toolEnv, outputs)
    ELSE IF fn = "HyprlandBackend.get_active_monitor"
    THEN HyprlandMonitors(toolEnv, outputs)
    ELSE Monitors(fn, cached)

\* the direct query for the focused output gave a connector
DirectAnswer(fn) ==
    /\ focusQuery \notin {"error", "nothing"}
    /\ IF fn = "HyprlandBackend.get_active_monitor"
       THEN toolEnv["hyprctl"] = "ok" /\ outputs # <<>>
       ELSE toolEnv["niri"] = "ok"

\* C22 as stated: get_active_monitor does not raise, and whenever the direct
\* query yields nothing, a failing tool included, it returns the first
\* monitor of discovery if discovery returns one.
C22_TieredFallback ==
    asked.fn \in {"NiriBackend.get_active_monitor",
                  "MonitorManager._get_niri_focused_monitor",
                  "HyprlandBackend.get_active_monitor"} =>
        /\ ~asked.raised
        /\ DirectAnswer(asked.fn) => asked.monitor = focusQuery
        /\ (/\ ~DirectAnswer(asked.fn)
            /\ ~DiscoveryFor(asked.fn).raised
            /\ DiscoveryFor(asked.fn).monitors # <<>>) =>
               asked.monitor = DiscoveryFor(asked.fn).monitors[1]

\* the binary the probe of a backend runs last
ProbeBinary(fn) ==
    IF fn = "NiriBackend.is_available" THEN "swww"
    ELSE IF fn = "KDEBackend.is_available" THEN "qdbus"
    ELSE "hyprctl"

\* C23 as stated: is_available does not raise, and says false when its
\* probe fails in any way.
C23_ProbeNeverRaises ==
    asked.fn \in {"NiriBackend.is_available", "KDEBackend.is_available",
                  "HyprlandBackend.is_available"} =>
        /\ ~asked.raised
        /\ toolEnv[ProbeBinary(asked.fn)] # "ok" => asked.available = "False"

\* the primary and the secondary discovery tool of a backend ("" when it
\* has no secondary)
PrimaryTool(fn) ==
    IF fn = "NiriBackend.get_monitors" THEN "niri"
    ELSE IF fn = "LabwcBackend.get_monitors" THEN "wlr-randr"
    ELSE "hyprctl"

SecondaryTool(fn) == IF fn = "NiriBackend.get_monitors" THEN "swww" ELSE ""

\* C24 as stated: get_monitors does not raise; it returns what the primary
\* tool lists, what the secondary lists when the primary fails, and the
\* empty sequence when no tool works.
C24_DiscoveryNeverRaises ==
    asked.fn \in {"NiriBackend.get_monitors", "LabwcBackend.get_monitors",
                  "HyprlandBackend.get_monitors"} =>
        LET primary == toolEnv[PrimaryTool(asked.fn)] = "ok"
            secondary == /\ SecondaryTool(asked.fn) # ""
                         /\ toolEnv[SecondaryTool(asked.fn)] = "ok"
        IN  /\ ~asked.raised
            /\ asked.monitors = (IF primary \/ secondary THEN outputs ELSE <<>>)


\* C25 as stated: no step of an apply removes an entry of the
\* monitor-wallpapers document; a connector that has an entry keeps one,
\* attached or not.
C25_EntriesNeverRemoved ==
    [][\A c \in Connectors :
           monitorWallpapers[c] # NoPath => monitorWallpapers'[c] # NoPath]_vars


\* C26: a finished sync_from_global_state has changed nothing when the store
\* held an entry or the pointer did not exist, and has given every monitor
\* discovery returned the pointer's target when the store was empty and the
\* pointer existed.
C26_SyncBootstrapsEmptyStore ==
    sync[1].pc = "done" =>
        /\ sync[1].before # EmptyDoc => memState[1] = sync[1].before
        /\ ~PointerExists(sync[1].pointer) => memState[1] = sync[1].before
        /\ (sync[1].before = EmptyDoc /\ PointerExists(sync[1].pointer)) =>
               \A i \in DOMAIN sync[1].found :
                   sync[1].found[i] # "" =>
                       Lookup(memState[1], sync[1].found[i]) = sync[1].pointer[2]

\* A sync of an empty store has run its loop over two discovered monitors and
\* both hold the pointer's target.
C26_Witness ==
    /\ sync[1].pc = "done"
    /\ sync[1].before = EmptyDoc
    /\ sync[1].found = <<"DP-1", "HDMI-A-1">>
    /\ Lookup(memState[1], "DP-1") = "b.png"
    /\ Lookup(memState[1], "HDMI-A-1") = "b.png"


Before(log, a, b) ==
    \A i, j \in DOMAIN log : (log[i] = a /\ log[j] = b) => i < j

Ran(step) == \E i \in DOMAIN sw.log : sw.log[i] = step

C28_StoppedTimerSchedulesNothing ==
    /\ [](lastAsked = "stop" => (source = "none" /\ ~timer.running))
    /\ [][lastAsked = "stop" => dispatched' = dispatched]_vars
    /\ \A n \in 1..MaxTicks : (dispatched >= n) ~> (completed >= n)

\* The timer was stopped while an apply it had handed out was still queued
\* or running.
C28_Witness ==
    /\ lastAsked = "stop"
    /\ dispatched > completed
    /\ source = "none"


\* C29 as stated: whatever the interleaving of two processes' set calls, the
\* state file is always a complete document, and once both calls have
\* returned it is the document of the call that returned last.
C29_SharedFileAtomic ==
    /\ RealFile.exists => IsCompleteDoc(RealFile.data)
    /\ Len(finishOrder) = 2 =>
           LoadState(RealFile) = writer[finishOrder[2]].state


\* whether candidate n can be built and answers true in environment env
AvailableIn(env, n) == env.ctor[n] = "ok" /\ env.probe[n] = "true"

C31_TransitionNormalized ==
    (call.sent # NoSent /\ call.backend # NoBackend) =>
        call.sent.transition =
            (IF ~SupportsTransitions(call.backend, swwwAvailable) THEN "none"
             ELSE IF call.transition = "none" \/ call.transition = "random"
                  THEN "fade"
             ELSE call.transition)

\* The GUI dispatched a request for 'wipe' through a KDE backend that has
\* swww, and 'wipe' is what the backend was given.
C31_Witness ==
    /\ call.entry = "gui"
    /\ call.backend = "kde"
    /\ swwwAvailable
    /\ call.transition = "wipe"
    /\ call.sent # NoSent
    /\ call.sent.transition = "wipe"


\* the three files of C32: none, text that is not JSON, and JSON that is
\* not an object with the key "monitors"
Unusable(f) ==
    \/ f.kind = "absent"
    \/ f.kind = "garbage"
    \/ (f.kind = "json" /\ ~(f.shape = "object" /\ f.hasMonitors))

\* C32: a manager built on no file, on text that is not JSON or on JSON
\* that is not an object with "monitors" is built without an exception and
\* holds the empty store: a lookup on it gives nothing, and a set on it does
\* not raise, records the entry and returns True when the save went through.
C32_LoadDefaultsToEmpty ==
    (msm.built /\ Unusable(msm.loaded)) =>
        /\ ~reply.raised
        /\ msm.fresh => msm.state = EmptyState
        /\ (msm.fresh /\ reply.op = "get") => reply.value = "None"
        /\ (reply.op = "set" /\ reply.value = "True") =>
               /\ stateFile = StoredDocument(msm.state.entries)
               /\ msm.state.entries[reply.monitor] # ""
        /\ reply.op = "set" => reply.value \in {"True", "False"}

\* A manager built on a JSON list took a set, and the file now holds the
\* one-entry document.
C32_Witness ==
    /\ msm.built
    /\ msm.loaded.kind = "json"
    /\ msm.loaded.shape = "list"
    /\ reply.op = "set"
    /\ reply.value = "True"
    /\ stateFile = StoredDocument([NoEntries EXCEPT !["DP-1"] = "a.png"])


\* C33: up to and including its dispatch a call leaves the pointer and the
\* per-monitor entries alone, and once the dispatch has failed no later
\* step of the call changes them either.
C33_FailedDispatchNoBookkeeping ==
    [][((call.pc \in {"idle", "prepared"})
        \/ (call.pc \notin {"idle", "prepared"} /\ ~call.success)) =>
           /\ currentWallpaper' = currentWallpaper
           /\ monitorWallpapers' = monitorWallpapers]_vars

\* The wallpaper tool was run for a call and failed; the call is over, the
\* pointer is the one from before and the tracked entries are still there.
C33_Witness ==
    /\ call.pc = "done"
    /\ ~call.success
    /\ call.result = "False"
    /\ call.tools # <<>>
    /\ currentWallpaper = call.linkBefore
    /\ currentWallpaper # NoPath
    /\ currentWallpaper # call.image
    /\ \A c \in Connectors : monitorWallpapers[c] = currentWallpaper


C35_OneSourceIffRunning ==
    /\ ~leaked
    /\ timer.running <=> source = "armed"
    /\ timer.running <=> timer.timer_id # NoTimerId

\* A running timer was started again with another interval after it had
\* ticked, and one source is armed.
C35_Witness ==
    /\ timer.running
    /\ timer.interval = 900
    /\ autoInterval = 900
    /\ lastAsked = "start"
    /\ dispatched >= 2
    /\ source = "armed"
    /\ ~leaked


\* C36 as stated: the tracking step of a successful apply to one connector
\* leaves the entry of every other connector as it was.
C36_OnlyTargetEntryChanges ==
    [][(call.pc = "linked" /\ call.entry = "gui" /\ call.success
        /\ call.monitor # NoMonitor) =>
           \A c \in Connectors \ {call.monitor} :
               monitorWallpapers'[c] = monitorWallpapers[c]]_vars


\* C37: with no wallpapers get_next_wallpaper and get_prev_wallpaper answer
\* None; otherwise next of the last wallpaper is the first, previous of the
\* first is the last, and for a monitor whose current wallpaper w is listed,
\* get_next_wallpaper, set_current_wallpaper of the answer and
\* get_prev_wallpaper answer w.
C37_NavigationCyclic ==
    LET wallpaper_list == GetWallpaperList(wallpaperDir)
        current == msm.state.entries[reply.monitor]
    IN /\ (reply.op \in {"next", "prev"} /\ wallpaper_list = <<>>) =>
              (~reply.raised /\ reply.value = "None")
       /\ (reply.op \in {"next", "prev"} /\ wallpaper_list # <<>> /\ msm.state.isMapping) =>
              /\ ~reply.raised
              /\ reply.value \in wallpaperDir
              /\ (reply.op = "next" /\ current = wallpaper_list[Len(wallpaper_list)]) =>
                     reply.value = wallpaper_list[1]
              /\ (reply.op = "prev" /\ current = wallpaper_list[1]) =>
                     reply.value = wallpaper_list[Len(wallpaper_list)]
       /\ (trip.stage = "back" /\ trip.from \in wallpaperDir) =>
              reply.value = trip.from

\* With three wallpaper_list, a monitor on the last one was moved to the next,
\* which is the first, and previous answered the last one again.
C37_Witness ==
    /\ wallpaperDir = NavNames
    /\ trip.stage = "back"
    /\ trip.from = "c.png"
    /\ trip.via = "a.png"
    /\ reply.op = "prev"
    /\ reply.value = "c.png"


\* the prior contents C38 names: no file, a plain effect, "scale|effect"
PriorNamed(file) ==
    \/ ~file.exists
    \/ Len(file.fields) = 1 /\ file.fields # <<"">>
    \/ Len(file.fields) = 2 /\ file.fields[1] # ""

\* C38: for an effect name e without '|' and a prior marker that was
\* absent, plain or "scale|effect", get_current_effect after
\* set_current_effect(e) returns e, and a "scale|effect" marker holds the
\* same scale and e after the write.
C38_EffectRoundTrip ==
    (effectCall.op \in {"set", "got"} /\ Len(effectCall.effect) = 1
     /\ PriorNamed(effectCall.before)) =>
        /\ effectCall.op = "got" => effectCall.result = effectCall.effect
        /\ (effectCall.before.exists /\ Len(effectCall.before.fields) = 2) =>
               marker.fields = <<effectCall.before.fields[1], effectCall.effect[1]>>
        /\ (~effectCall.before.exists \/ Len(effectCall.before.fields) = 1) =>
               marker.fields = effectCall.effect

\* sepia was set over the padded legacy marker "2|blur" and read back.
C38_Witness ==
    /\ effectCall.op = "got"
    /\ effectCall.by = "common"
    /\ effectCall.effect = <<"sepia">>
    /\ effectCall.before = Marker(TRUE, TRUE, <<"2", "blur">>)
    /\ effectCall.result = <<"sepia">>
    /\ marker = Marker(TRUE, FALSE, <<"2", "sepia">>)

====
